---- MODULE Spec2Model ----
(***************************************************************************)
(* A model of pircel: the line codec and command dispatch of               *)
(* pircel.protocol.IRCServerHandler, and the connection lifecycle of       *)
(* pircel.tornado_adapter.IRCClient / pircel.bot.IRCBot on a single        *)
(* threaded IO loop.                                                       *)
(*                                                                         *)
(* A Python str is modelled as a sequence of one-character strings, so     *)
(* that parsing, stripping, lower-casing and formatting are computed       *)
(* rather than assumed.                                                    *)
(***************************************************************************)
EXTENDS Integers, Sequences, FiniteSets, TLC

-----------------------------------------------------------------------------
(* Bounds of the model *)

\* number of frames the server delivers to the read loop in one run
MaxLines == 2
\* number of subscriptions the host makes with add_callback before connecting
MaxSubs == 2
\* length of the channel auto-join list
MaxChannels == 1
\* number of calls of IRCClient.stop() the host makes in one run
MaxStops == 2
\* number of User records the Session Model comes to hold in one run
MaxUsers == 3
\* number of Line records the Session Model comes to hold in one run
MaxSessionLines == 1
MaxMessageLen == 3
MaxLineLen == 5

-----------------------------------------------------------------------------
(* str primitives *)

Whitespace == {" ", "\n", "\r", "\t"}

Digits == {"0", "1", "2", "3", "4", "5", "6", "7", "8", "9"}

LowerOf == "A" :> "a" @@ "B" :> "b" @@ "C" :> "c" @@ "D" :> "d" @@ "E" :> "e" @@ "F" :> "f" @@ "G" :> "g" @@ "H" :> "h" @@ "I" :> "i" @@ "J" :> "j" @@ "K" :> "k" @@ "L" :> "l" @@ "M" :> "m" @@ "N" :> "n" @@ "O" :> "o" @@ "P" :> "p" @@ "Q" :> "q" @@ "R" :> "r" @@ "S" :> "s" @@ "T" :> "t" @@ "U" :> "u" @@ "V" :> "v" @@ "W" :> "w" @@ "X" :> "x" @@ "Y" :> "y" @@ "Z" :> "z"

\* str.lower(), per character
lower_char(c) == IF c \in DOMAIN LowerOf THEN LowerOf[c] ELSE c

\* str.lower()
lower(s) == [i \in 1..Len(s) |-> lower_char(s[i])]

\* str.isdecimal(): non-empty and every character a decimal digit
isdecimal(s) == Len(s) > 0 /\ \A i \in 1..Len(s) : s[i] \in Digits

RECURSIVE lstrip(_)
lstrip(s) == IF s # <<>> /\ Head(s) \in Whitespace THEN lstrip(Tail(s)) ELSE s

RECURSIVE rstrip(_)
rstrip(s) ==
    IF s # <<>> /\ s[Len(s)] \in Whitespace
    THEN rstrip(SubSeq(s, 1, Len(s) - 1))
    ELSE s

\* str.strip(): whitespace removed at both ends
strip(s) == rstrip(lstrip(s))

\* str.find(sub), 1-based; 0 where Python returns -1
find(s, sub) ==
    LET I == {i \in 1..(Len(s) - Len(sub) + 1) : SubSeq(s, i, i + Len(sub) - 1) = sub}
    IN  IF I = {} THEN 0 ELSE CHOOSE i \in I : \A j \in I : i <= j

\* str.split(sep, 1): at most one split, at the first occurrence of sep
split_once(s, sep) ==
    LET i == find(s, sep)
    IN  IF i = 0 THEN <<s>>
        ELSE <<SubSeq(s, 1, i - 1), SubSeq(s, i + Len(sep), Len(s))>>

\* the first whitespace-delimited word of a string with no leading whitespace
RECURSIVE first_word(_)
first_word(s) ==
    IF s = <<>> \/ Head(s) \in Whitespace THEN <<>>
    ELSE <<Head(s)>> \o first_word(Tail(s))

\* str.split(): words separated by runs of whitespace, no empty words
RECURSIVE split_ws(_)
split_ws(s) ==
    LET t == lstrip(s)
        w == first_word(t)
    IN  IF t = <<>> THEN <<>>
        ELSE <<w>> \o split_ws(SubSeq(t, Len(w) + 1, Len(t)))

-----------------------------------------------------------------------------
(* pircel.protocol: the line codec *)

\* the items of the symbolic_to_numeric dict literal, in source order
symbolic_to_numeric_items == <<
    <<<<"R", "P", "L", "_", "W", "E", "L", "C", "O", "M", "E">>, <<"0", "0", "1">>>>,
    <<<<"R", "P", "L", "_", "Y", "O", "U", "R", "H", "O", "S", "T">>, <<"0", "0", "2">>>>,
    <<<<"R", "P", "L", "_", "C", "R", "E", "A", "T", "E", "D">>, <<"0", "0", "3">>>>,
    <<<<"R", "P", "L", "_", "M", "Y", "I", "N", "F", "O">>, <<"0", "0", "4">>>>,
    <<<<"R", "P", "L", "_", "I", "S", "U", "P", "P", "O", "R", "T">>, <<"0", "0", "5">>>>,
    <<<<"R", "P", "L", "_", "B", "O", "U", "N", "C", "E">>, <<"0", "1", "0">>>>,
    <<<<"R", "P", "L", "_", "S", "T", "A", "T", "S", "C", "O", "N", "N">>, <<"2", "5", "0">>>>,
    <<<<"R", "P", "L", "_", "L", "O", "C", "A", "L", "U", "S", "E", "R", "S">>, <<"2", "6", "5">>>>,
    <<<<"R", "P", "L", "_", "G", "L", "O", "B", "A", "L", "U", "S", "E", "R", "S">>, <<"2", "6", "6">>>>,
    <<<<"R", "P", "L", "_", "U", "S", "E", "R", "H", "O", "S", "T">>, <<"3", "0", "2">>>>,
    <<<<"R", "P", "L", "_", "I", "S", "O", "N">>, <<"3", "0", "3">>>>,
    <<<<"R", "P", "L", "_", "A", "W", "A", "Y">>, <<"3", "0", "1">>>>,
    <<<<"R", "P", "L", "_", "U", "N", "A", "W", "A", "Y">>, <<"3", "0", "5">>>>,
    <<<<"R", "P", "L", "_", "N", "O", "W", "A", "W", "A", "Y">>, <<"3", "0", "6">>>>,
    <<<<"R", "P", "L", "_", "W", "H", "O", "I", "S", "U", "S", "E", "R">>, <<"3", "1", "1">>>>,
    <<<<"R", "P", "L", "_", "W", "H", "O", "I", "S", "S", "E", "R", "V", "E", "R">>, <<"3", "1", "2">>>>,
    <<<<"R", "P", "L", "_", "W", "H", "O", "I", "S", "O", "P", "E", "R", "A", "T", "O", "R">>, <<"3", "1", "3">>>>,
    <<<<"R", "P", "L", "_", "W", "H", "O", "I", "S", "I", "D", "L", "E">>, <<"3", "1", "7">>>>,
    <<<<"R", "P", "L", "_", "E", "N", "D", "O", "F", "W", "H", "O", "I", "S">>, <<"3", "1", "8">>>>,
    <<<<"R", "P", "L", "_", "W", "H", "O", "I", "S", "C", "H", "A", "N", "N", "E", "L", "S">>, <<"3", "1", "9">>>>,
    <<<<"R", "P", "L", "_", "W", "H", "O", "W", "A", "S", "U", "S", "E", "R">>, <<"3", "1", "4">>>>,
    <<<<"R", "P", "L", "_", "E", "N", "D", "O", "F", "W", "H", "O", "W", "A", "S">>, <<"3", "6", "9">>>>,
    <<<<"R", "P", "L", "_", "L", "I", "S", "T", "S", "T", "A", "R", "T">>, <<"3", "2", "1">>>>,
    <<<<"R", "P", "L", "_", "L", "I", "S", "T">>, <<"3", "2", "2">>>>,
    <<<<"R", "P", "L", "_", "L", "I", "S", "T", "E", "N", "D">>, <<"3", "2", "3">>>>,
    <<<<"R", "P", "L", "_", "U", "N", "I", "Q", "O", "P", "I", "S">>, <<"3", "2", "5">>>>,
    <<<<"R", "P", "L", "_", "C", "H", "A", "N", "N", "E", "L", "M", "O", "D", "E", "I", "S">>, <<"3", "2", "4">>>>,
    <<<<"R", "P", "L", "_", "N", "O", "T", "O", "P", "I", "C">>, <<"3", "3", "1">>>>,
    <<<<"R", "P", "L", "_", "T", "O", "P", "I", "C">>, <<"3", "3", "2">>>>,
    <<<<"R", "P", "L", "_", "I", "N", "V", "I", "T", "I", "N", "G">>, <<"3", "4", "1">>>>,
    <<<<"R", "P", "L", "_", "S", "U", "M", "M", "O", "N", "I", "N", "G">>, <<"3", "4", "2">>>>,
    <<<<"R", "P", "L", "_", "I", "N", "V", "I", "T", "E", "L", "I", "S", "T">>, <<"3", "4", "6">>>>,
    <<<<"R", "P", "L", "_", "E", "N", "D", "O", "F", "I", "N", "V", "I", "T", "E", "L", "I", "S", "T">>, <<"3", "4", "7">>>>,
    <<<<"R", "P", "L", "_", "E", "X", "C", "E", "P", "T", "L", "I", "S", "T">>, <<"3", "4", "8">>>>,
    <<<<"R", "P", "L", "_", "E", "N", "D", "O", "F", "E", "X", "C", "E", "P", "T", "L", "I", "S", "T">>, <<"3", "4", "9">>>>,
    <<<<"R", "P", "L", "_", "V", "E", "R", "S", "I", "O", "N">>, <<"3", "5", "1">>>>,
    <<<<"R", "P", "L", "_", "W", "H", "O", "R", "E", "P", "L", "Y">>, <<"3", "5", "2">>>>,
    <<<<"R", "P", "L", "_", "E", "N", "D", "O", "F", "W", "H", "O">>, <<"3", "1", "5">>>>,
    <<<<"R", "P", "L", "_", "N", "A", "M", "R", "E", "P", "L", "Y">>, <<"3", "5", "3">>>>,
    <<<<"R", "P", "L", "_", "E", "N", "D", "O", "F", "N", "A", "M", "E", "S">>, <<"3", "6", "6">>>>,
    <<<<"R", "P", "L", "_", "L", "I", "N", "K", "S">>, <<"3", "6", "4">>>>,
    <<<<"R", "P", "L", "_", "E", "N", "D", "O", "F", "L", "I", "N", "K", "S">>, <<"3", "6", "5">>>>,
    <<<<"R", "P", "L", "_", "B", "A", "N", "L", "I", "S", "T">>, <<"3", "6", "7">>>>,
    <<<<"R", "P", "L", "_", "E", "N", "D", "O", "F", "B", "A", "N", "L", "I", "S", "T">>, <<"3", "6", "8">>>>,
    <<<<"R", "P", "L", "_", "I", "N", "F", "O">>, <<"3", "7", "1">>>>,
    <<<<"R", "P", "L", "_", "E", "N", "D", "O", "F", "I", "N", "F", "O">>, <<"3", "7", "4">>>>,
    <<<<"R", "P", "L", "_", "M", "O", "T", "D", "S", "T", "A", "R", "T">>, <<"3", "7", "5">>>>,
    <<<<"R", "P", "L", "_", "M", "O", "T", "D">>, <<"3", "7", "2">>>>,
    <<<<"R", "P", "L", "_", "E", "N", "D", "O", "F", "M", "O", "T", "D">>, <<"3", "7", "6">>>>,
    <<<<"R", "P", "L", "_", "Y", "O", "U", "R", "E", "O", "P", "E", "R">>, <<"3", "8", "1">>>>,
    <<<<"R", "P", "L", "_", "R", "E", "H", "A", "S", "H", "I", "N", "G">>, <<"3", "8", "2">>>>,
    <<<<"R", "P", "L", "_", "Y", "O", "U", "R", "E", "S", "E", "R", "V", "I", "C", "E">>, <<"3", "8", "3">>>>,
    <<<<"R", "P", "L", "_", "T", "I", "M", "E">>, <<"3", "9", "1">>>>,
    <<<<"R", "P", "L", "_", "U", "S", "E", "R", "S", "S", "T", "A", "R", "T">>, <<"3", "9", "2">>>>,
    <<<<"R", "P", "L", "_", "U", "S", "E", "R", "S">>, <<"3", "9", "3">>>>,
    <<<<"R", "P", "L", "_", "E", "N", "D", "O", "F", "U", "S", "E", "R", "S">>, <<"3", "9", "4">>>>,
    <<<<"R", "P", "L", "_", "N", "O", "U", "S", "E", "R", "S">>, <<"3", "9", "5">>>>,
    <<<<"R", "P", "L", "_", "T", "R", "A", "C", "E", "L", "I", "N", "K">>, <<"2", "0", "0">>>>,
    <<<<"R", "P", "L", "_", "T", "R", "A", "C", "E", "C", "O", "N", "N", "E", "C", "T", "I", "N", "G">>, <<"2", "0", "1">>>>,
    <<<<"R", "P", "L", "_", "T", "R", "A", "C", "E", "H", "A", "N", "D", "S", "H", "A", "K", "E">>, <<"2", "0", "2">>>>,
    <<<<"R", "P", "L", "_", "T", "R", "A", "C", "E", "U", "N", "K", "N", "O", "W", "N">>, <<"2", "0", "3">>>>,
    <<<<"R", "P", "L", "_", "T", "R", "A", "C", "E", "O", "P", "E", "R", "A", "T", "O", "R">>, <<"2", "0", "4">>>>,
    <<<<"R", "P", "L", "_", "T", "R", "A", "C", "E", "U", "S", "E", "R">>, <<"2", "0", "5">>>>,
    <<<<"R", "P", "L", "_", "T", "R", "A", "C", "E", "S", "E", "R", "V", "E", "R">>, <<"2", "0", "6">>>>,
    <<<<"R", "P", "L", "_", "T", "R", "A", "C", "E", "S", "E", "R", "V", "I", "C", "E">>, <<"2", "0", "7">>>>,
    <<<<"R", "P", "L", "_", "T", "R", "A", "C", "E", "N", "E", "W", "T", "Y", "P", "E">>, <<"2", "0", "8">>>>,
    <<<<"R", "P", "L", "_", "T", "R", "A", "C", "E", "C", "L", "A", "S", "S">>, <<"2", "0", "9">>>>,
    <<<<"R", "P", "L", "_", "T", "R", "A", "C", "E", "R", "E", "C", "O", "N", "N", "E", "C", "T">>, <<"2", "1", "0">>>>,
    <<<<"R", "P", "L", "_", "T", "R", "A", "C", "E", "L", "O", "G">>, <<"2", "6", "1">>>>,
    <<<<"R", "P", "L", "_", "T", "R", "A", "C", "E", "E", "N", "D">>, <<"2", "6", "2">>>>,
    <<<<"R", "P", "L", "_", "S", "T", "A", "T", "S", "L", "I", "N", "K", "I", "N", "F", "O">>, <<"2", "1", "1">>>>,
    <<<<"R", "P", "L", "_", "S", "T", "A", "T", "S", "C", "O", "M", "M", "A", "N", "D", "S">>, <<"2", "1", "2">>>>,
    <<<<"R", "P", "L", "_", "E", "N", "D", "O", "F", "S", "T", "A", "T", "S">>, <<"2", "1", "9">>>>,
    <<<<"R", "P", "L", "_", "S", "T", "A", "T", "S", "U", "P", "T", "I", "M", "E">>, <<"2", "4", "2">>>>,
    <<<<"R", "P", "L", "_", "S", "T", "A", "T", "S", "O", "L", "I", "N", "E">>, <<"2", "4", "3">>>>,
    <<<<"R", "P", "L", "_", "U", "M", "O", "D", "E", "I", "S">>, <<"2", "2", "1">>>>,
    <<<<"R", "P", "L", "_", "S", "E", "R", "V", "L", "I", "S", "T">>, <<"2", "3", "4">>>>,
    <<<<"R", "P", "L", "_", "S", "E", "R", "V", "L", "I", "S", "T", "E", "N", "D">>, <<"2", "3", "5">>>>,
    <<<<"R", "P", "L", "_", "L", "U", "S", "E", "R", "C", "L", "I", "E", "N", "T">>, <<"2", "5", "1">>>>,
    <<<<"R", "P", "L", "_", "L", "U", "S", "E", "R", "O", "P">>, <<"2", "5", "2">>>>,
    <<<<"R", "P", "L", "_", "L", "U", "S", "E", "R", "U", "N", "K", "N", "O", "W", "N">>, <<"2", "5", "3">>>>,
    <<<<"R", "P", "L", "_", "L", "U", "S", "E", "R", "C", "H", "A", "N", "N", "E", "L", "S">>, <<"2", "5", "4">>>>,
    <<<<"R", "P", "L", "_", "L", "U", "S", "E", "R", "M", "E">>, <<"2", "5", "5">>>>,
    <<<<"R", "P", "L", "_", "A", "D", "M", "I", "N", "M", "E">>, <<"2", "5", "6">>>>,
    <<<<"R", "P", "L", "_", "A", "D", "M", "I", "N", "L", "O", "C">>, <<"2", "5", "7">>>>,
    <<<<"R", "P", "L", "_", "A", "D", "M", "I", "N", "L", "O", "C">>, <<"2", "5", "8">>>>,
    <<<<"R", "P", "L", "_", "A", "D", "M", "I", "N", "E", "M", "A", "I", "L">>, <<"2", "5", "9">>>>,
    <<<<"R", "P", "L", "_", "T", "R", "Y", "A", "G", "A", "I", "N">>, <<"2", "6", "3">>>>,
    <<<<"E", "R", "R", "_", "N", "O", "S", "U", "C", "H", "N", "I", "C", "K">>, <<"4", "0", "1">>>>,
    <<<<"E", "R", "R", "_", "N", "O", "S", "U", "C", "H", "S", "E", "R", "V", "E", "R">>, <<"4", "0", "2">>>>,
    <<<<"E", "R", "R", "_", "N", "O", "S", "U", "C", "H", "C", "H", "A", "N", "N", "E", "L">>, <<"4", "0", "3">>>>,
    <<<<"E", "R", "R", "_", "C", "A", "N", "N", "O", "T", "S", "E", "N", "D", "T", "O", "C", "H", "A", "N">>, <<"4", "0", "4">>>>,
    <<<<"E", "R", "R", "_", "T", "O", "O", "M", "A", "N", "Y", "C", "H", "A", "N", "N", "E", "L", "S">>, <<"4", "0", "5">>>>,
    <<<<"E", "R", "R", "_", "W", "A", "S", "N", "O", "S", "U", "C", "H", "N", "I", "C", "K">>, <<"4", "0", "6">>>>,
    <<<<"E", "R", "R", "_", "T", "O", "O", "M", "A", "N", "Y", "T", "A", "R", "G", "E", "T", "S">>, <<"4", "0", "7">>>>,
    <<<<"E", "R", "R", "_", "N", "O", "S", "U", "C", "H", "S", "E", "R", "V", "I", "C", "E">>, <<"4", "0", "8">>>>,
    <<<<"E", "R", "R", "_", "N", "O", "O", "R", "I", "G", "I", "N">>, <<"4", "0", "9">>>>,
    <<<<"E", "R", "R", "_", "N", "O", "R", "E", "C", "I", "P", "I", "E", "N", "T">>, <<"4", "1", "1">>>>,
    <<<<"E", "R", "R", "_", "N", "O", "T", "E", "X", "T", "T", "O", "S", "E", "N", "D">>, <<"4", "1", "2">>>>,
    <<<<"E", "R", "R", "_", "N", "O", "T", "O", "P", "L", "E", "V", "E", "L">>, <<"4", "1", "3">>>>,
    <<<<"E", "R", "R", "_", "W", "I", "L", "D", "T", "O", "P", "L", "E", "V", "E", "L">>, <<"4", "1", "4">>>>,
    <<<<"E", "R", "R", "_", "B", "A", "D", "M", "A", "S", "K">>, <<"4", "1", "5">>>>,
    <<<<"E", "R", "R", "_", "U", "N", "K", "N", "O", "W", "N", "C", "O", "M", "M", "A", "N", "D">>, <<"4", "2", "1">>>>,
    <<<<"E", "R", "R", "_", "N", "O", "M", "O", "T", "D">>, <<"4", "2", "2">>>>,
    <<<<"E", "R", "R", "_", "N", "O", "A", "D", "M", "I", "N", "I", "N", "F", "O">>, <<"4", "2", "3">>>>,
    <<<<"E", "R", "R", "_", "F", "I", "L", "E", "E", "R", "R", "O", "R">>, <<"4", "2", "4">>>>,
    <<<<"E", "R", "R", "_", "N", "O", "N", "I", "C", "K", "N", "A", "M", "E", "G", "I", "V", "E", "N">>, <<"4", "3", "1">>>>,
    <<<<"E", "R", "R", "_", "E", "R", "R", "O", "N", "E", "U", "S", "N", "I", "C", "K", "N", "A", "M", "E">>, <<"4", "3", "2">>>>,
    <<<<"E", "R", "R", "_", "N", "I", "C", "K", "N", "A", "M", "E", "I", "N", "U", "S", "E">>, <<"4", "3", "3">>>>,
    <<<<"E", "R", "R", "_", "N", "I", "C", "K", "C", "O", "L", "L", "I", "S", "I", "O", "N">>, <<"4", "3", "6">>>>,
    <<<<"E", "R", "R", "_", "U", "N", "A", "V", "A", "I", "L", "R", "E", "S", "O", "U", "R", "C", "E">>, <<"4", "3", "7">>>>,
    <<<<"E", "R", "R", "_", "U", "S", "E", "R", "N", "O", "T", "I", "N", "C", "H", "A", "N", "N", "E", "L">>, <<"4", "4", "1">>>>,
    <<<<"E", "R", "R", "_", "N", "O", "T", "O", "N", "C", "H", "A", "N", "N", "E", "L">>, <<"4", "4", "2">>>>,
    <<<<"E", "R", "R", "_", "U", "S", "E", "R", "O", "N", "C", "H", "A", "N", "N", "E", "L">>, <<"4", "4", "3">>>>,
    <<<<"E", "R", "R", "_", "N", "O", "L", "O", "G", "I", "N">>, <<"4", "4", "4">>>>,
    <<<<"E", "R", "R", "_", "S", "U", "M", "M", "O", "N", "D", "I", "S", "A", "B", "L", "E", "D">>, <<"4", "4", "5">>>>,
    <<<<"E", "R", "R", "_", "U", "S", "E", "R", "S", "D", "I", "S", "A", "B", "L", "E", "D">>, <<"4", "4", "6">>>>,
    <<<<"E", "R", "R", "_", "N", "O", "T", "R", "E", "G", "I", "S", "T", "E", "R", "E", "D">>, <<"4", "5", "1">>>>,
    <<<<"E", "R", "R", "_", "N", "E", "E", "D", "M", "O", "R", "E", "P", "A", "R", "A", "M", "S">>, <<"4", "6", "1">>>>,
    <<<<"E", "R", "R", "_", "A", "L", "R", "E", "A", "D", "Y", "R", "E", "G", "I", "S", "T", "R", "E", "D">>, <<"4", "6", "2">>>>,
    <<<<"E", "R", "R", "_", "N", "O", "P", "E", "R", "M", "F", "O", "R", "H", "O", "S", "T">>, <<"4", "6", "3">>>>,
    <<<<"E", "R", "R", "_", "P", "A", "S", "S", "W", "D", "M", "I", "S", "M", "A", "T", "C", "H">>, <<"4", "6", "4">>>>,
    <<<<"E", "R", "R", "_", "Y", "O", "U", "R", "E", "B", "A", "N", "N", "E", "D", "C", "R", "E", "E", "P">>, <<"4", "6", "5">>>>,
    <<<<"E", "R", "R", "_", "Y", "O", "U", "W", "I", "L", "L", "B", "E", "B", "A", "N", "N", "E", "D">>, <<"4", "6", "6">>>>,
    <<<<"E", "R", "R", "_", "K", "E", "Y", "S", "E", "T">>, <<"4", "6", "7">>>>,
    <<<<"E", "R", "R", "_", "C", "H", "A", "N", "N", "E", "L", "I", "S", "F", "U", "L", "L">>, <<"4", "7", "1">>>>,
    <<<<"E", "R", "R", "_", "U", "N", "K", "N", "O", "W", "N", "M", "O", "D", "E">>, <<"4", "7", "2">>>>,
    <<<<"E", "R", "R", "_", "I", "N", "V", "I", "T", "E", "O", "N", "L", "Y", "C", "H", "A", "N">>, <<"4", "7", "3">>>>,
    <<<<"E", "R", "R", "_", "B", "A", "N", "N", "E", "D", "F", "R", "O", "M", "C", "H", "A", "N">>, <<"4", "7", "4">>>>,
    <<<<"E", "R", "R", "_", "B", "A", "D", "C", "H", "A", "N", "N", "E", "L", "K", "E", "Y">>, <<"4", "7", "5">>>>,
    <<<<"E", "R", "R", "_", "B", "A", "D", "C", "H", "A", "N", "M", "A", "S", "K">>, <<"4", "7", "6">>>>,
    <<<<"E", "R", "R", "_", "N", "O", "C", "H", "A", "N", "M", "O", "D", "E", "S">>, <<"4", "7", "7">>>>,
    <<<<"E", "R", "R", "_", "B", "A", "N", "L", "I", "S", "T", "F", "U", "L", "L">>, <<"4", "7", "8">>>>,
    <<<<"E", "R", "R", "_", "N", "O", "P", "R", "I", "V", "I", "L", "E", "G", "E", "S">>, <<"4", "8", "1">>>>,
    <<<<"E", "R", "R", "_", "C", "H", "A", "N", "O", "P", "R", "I", "V", "S", "N", "E", "E", "D", "E", "D">>, <<"4", "8", "2">>>>,
    <<<<"E", "R", "R", "_", "C", "A", "N", "T", "K", "I", "L", "L", "S", "E", "R", "V", "E", "R">>, <<"4", "8", "3">>>>,
    <<<<"E", "R", "R", "_", "R", "E", "S", "T", "R", "I", "C", "T", "E", "D">>, <<"4", "8", "4">>>>,
    <<<<"E", "R", "R", "_", "U", "N", "I", "Q", "O", "P", "P", "R", "I", "V", "S", "N", "E", "E", "D", "E", "D">>, <<"4", "8", "5">>>>,
    <<<<"E", "R", "R", "_", "N", "O", "O", "P", "E", "R", "H", "O", "S", "T">>, <<"4", "9", "1">>>>,
    <<<<"E", "R", "R", "_", "N", "O", "S", "E", "R", "V", "I", "C", "E", "H", "O", "S", "T">>, <<"4", "9", "2">>>>,
    <<<<"E", "R", "R", "_", "U", "M", "O", "D", "E", "U", "N", "K", "N", "O", "W", "N", "F", "L", "A", "G">>, <<"5", "0", "1">>>>,
    <<<<"E", "R", "R", "_", "U", "S", "E", "R", "S", "D", "O", "N", "T", "M", "A", "T", "C", "H">>, <<"5", "0", "2">>>>
>>

\* the dict built from the literal: a repeated key keeps its last value
symbolic_to_numeric ==
    LET items == symbolic_to_numeric_items
        keys == {items[i][1] : i \in DOMAIN items}
        last(k) == CHOOSE i \in DOMAIN items :
                       /\ items[i][1] = k
                       /\ \A j \in DOMAIN items : items[j][1] = k => j <= i
    IN  [k \in keys |-> items[last(k)][2]]

\* {v: k for k, v in symbolic_to_numeric.items()}
numeric_to_symbolic ==
    LET d == symbolic_to_numeric
        nums == {d[k] : k \in DOMAIN d}
    IN  [n \in nums |-> CHOOSE k \in DOMAIN d : d[k] = n]

Raise(e) == [exc |-> e]

\* split_irc_line splitting the whole rest at whitespace, ' :' or not
split_irc_line_no_trailing(s) ==
    IF s = <<>> THEN Raise("IndexError")
    ELSE
      LET hasPrefix == s[1] = ":"
          ps == split_once(Tail(s), <<" ">>)
      IN  IF hasPrefix /\ Len(ps) < 2 THEN Raise("ValueError")
          ELSE
            LET args == split_ws(IF hasPrefix THEN ps[2] ELSE s)
            IN  IF args = <<>> THEN Raise("IndexError")
                ELSE [exc |-> "none", prefix |-> IF hasPrefix THEN ps[1] ELSE <<>>,
                      command |-> Head(args), args |-> Tail(args)]

\* split_irc_line(s): (prefix, command, args), or the exception it raises
split_irc_line(s) ==
    IF s = <<>> THEN Raise("IndexError")
    ELSE
      LET hasPrefix == s[1] = ":"
          ps == split_once(Tail(s), <<" ">>)
      IN  IF hasPrefix /\ Len(ps) < 2 THEN Raise("ValueError")
          ELSE
            LET prefix == IF hasPrefix THEN ps[1] ELSE <<>>
                rest == IF hasPrefix THEN ps[2] ELSE s
                st == split_once(rest, <<" ", ":">>)
                args == IF find(rest, <<" ", ":">>) # 0
                        THEN Append(split_ws(st[1]), st[2])
                        ELSE split_ws(rest)
            IN  IF args = <<>> THEN Raise("IndexError")
                ELSE [exc |-> "none", prefix |-> prefix,
                      command |-> Head(args), args |-> Tail(args)]

\* the code points UTF-8 encodes in one byte of the same value: tab, line
\* feed, carriage return and the printable ASCII characters (the grave
\* accent, which a TLA+ string cannot hold, left out)
AsciiChr ==
    9 :> "\t" @@ 10 :> "\n" @@ 13 :> "\r" @@ 32 :> " " @@ 33 :> "!" @@
    34 :> "\"" @@ 35 :> "#" @@ 36 :> "$" @@ 37 :> "%" @@ 38 :> "&" @@
    39 :> "'" @@ 40 :> "(" @@ 41 :> ")" @@ 42 :> "*" @@ 43 :> "+" @@
    44 :> "," @@ 45 :> "-" @@ 46 :> "." @@ 47 :> "/" @@ 48 :> "0" @@
    49 :> "1" @@ 50 :> "2" @@ 51 :> "3" @@ 52 :> "4" @@ 53 :> "5" @@
    54 :> "6" @@ 55 :> "7" @@ 56 :> "8" @@ 57 :> "9" @@ 58 :> ":" @@
    59 :> ";" @@ 60 :> "<" @@ 61 :> "=" @@ 62 :> ">" @@ 63 :> "?" @@
    64 :> "@" @@ 65 :> "A" @@ 66 :> "B" @@ 67 :> "C" @@ 68 :> "D" @@
    69 :> "E" @@ 70 :> "F" @@ 71 :> "G" @@ 72 :> "H" @@ 73 :> "I" @@
    74 :> "J" @@ 75 :> "K" @@ 76 :> "L" @@ 77 :> "M" @@ 78 :> "N" @@
    79 :> "O" @@ 80 :> "P" @@ 81 :> "Q" @@ 82 :> "R" @@ 83 :> "S" @@
    84 :> "T" @@ 85 :> "U" @@ 86 :> "V" @@ 87 :> "W" @@ 88 :> "X" @@
    89 :> "Y" @@ 90 :> "Z" @@ 91 :> "[" @@ 92 :> "\\" @@ 93 :> "]" @@
    94 :> "^" @@ 95 :> "_" @@ 97 :> "a" @@ 98 :> "b" @@
    99 :> "c" @@ 100 :> "d" @@ 101 :> "e" @@ 102 :> "f" @@ 103 :> "g" @@
    104 :> "h" @@ 105 :> "i" @@ 106 :> "j" @@ 107 :> "k" @@ 108 :> "l" @@
    109 :> "m" @@ 110 :> "n" @@ 111 :> "o" @@ 112 :> "p" @@ 113 :> "q" @@
    114 :> "r" @@ 115 :> "s" @@ 116 :> "t" @@ 117 :> "u" @@ 118 :> "v" @@
    119 :> "w" @@ 120 :> "x" @@ 121 :> "y" @@ 122 :> "z" @@ 123 :> "{" @@
    124 :> "|" @@ 125 :> "}" @@ 126 :> "~"

\* the byte of an ASCII character
AsciiOrd(c) == CHOOSE n \in DOMAIN AsciiChr : AsciiChr[n] = c

\* str.encode('utf8') of ASCII text: bytes are numbers
encode_utf8(s) == [i \in 1..Len(s) |-> AsciiOrd(s[i])]

\* the code points ISO-8859-1 maps the bytes of this model to: the ASCII ones
\* and byte 0xE9, whose character is written by its code point
Latin1Chr == AsciiChr @@ (233 :> "U+00E9")

\* str(line, encoding='utf8') succeeds: the bytes of this model outside ASCII
\* are lead bytes without their continuation bytes
utf8_decodable(line) == \A i \in 1..Len(line) : line[i] \in DOMAIN AsciiChr

\* what chardet.detect(line)['encoding'] may answer: None when it recognises
\* nothing, an encoding that maps every byte, or one in which the bytes of
\* the line are no valid text
Detections == {"None", "ISO-8859-1", "SHIFT_JIS"}

\* the answers chardet may give for a line; it is consulted only when the
\* UTF-8 decoding has failed
chardet_detect(line) == IF utf8_decodable(line) THEN {"None"} ELSE Detections

\* decode(line), encoding being chardet's answer for the line:
\* str(line, encoding='utf8'), and when that fails str(line, encoding=...)
\* inside the except clause, whose own TypeError (encoding None) or
\* UnicodeDecodeError no clause catches
decode(line, encoding) ==
    IF utf8_decodable(line)
    THEN [exc |-> "none", text |-> [i \in 1..Len(line) |-> AsciiChr[line[i]]]]
    ELSE IF encoding = "None"
    THEN Raise("TypeError")
    ELSE IF encoding = "ISO-8859-1" /\ \A i \in 1..Len(line) : line[i] \in DOMAIN Latin1Chr
    THEN [exc |-> "none", text |-> [i \in 1..Len(line) |-> Latin1Chr[line[i]]]]
    ELSE Raise("UnicodeDecodeError")

\* parse_line(line)
parse_line(line, encoding) ==
    LET d == decode(line, encoding)
    IN  IF d.exc # "none" THEN Raise(d.exc) ELSE split_irc_line(strip(d.text))

\* get_symbolic_command letting an unmapped numeric through unchanged
get_symbolic_command_passthrough(command) ==
    IF isdecimal(command) /\ command \in DOMAIN numeric_to_symbolic
    THEN [exc |-> "none", symbolic |-> numeric_to_symbolic[command]]
    ELSE [exc |-> "none", symbolic |-> command]

\* get_symbolic_command(command)
get_symbolic_command(command) ==
    IF isdecimal(command)
    THEN IF command \in DOMAIN numeric_to_symbolic
         THEN [exc |-> "none", symbolic |-> numeric_to_symbolic[command]]
         ELSE Raise("UnknownNumericCommandError")
    ELSE [exc |-> "none", symbolic |-> command]

-----------------------------------------------------------------------------
(* Inputs: identities, channels, frames, event names, user callbacks *)

\* protocol.User(nick, username, real_name) as the tests and bot.py build it
UserIdentity ==
    [nick |-> <<"t", "e", "s", "t">>, username |-> <<"t", "e", "s", "t">>, real_name |-> <<"t", "e", "s", "t">>]

\* Identity(nick=rand_nick, username='upircel', realname='timmy'), the
\* AttrDict that tornado_adapter.IRCBot hands to IRCServerHandler
AttrDictIdentity ==
    [nick |-> <<"p", "i", "r", "c", "e", "l", "_", "1", "2", "8">>, username |-> <<"u", "p", "i", "r", "c", "e", "l">>, realname |-> <<"t", "i", "m", "m", "y">>]

Hosts == {"bot", "client"}

\* the identities each host configures
Identities(h) ==
    IF h = "bot" THEN {UserIdentity} ELSE {UserIdentity, AttrDictIdentity}

DigitOf == <<"1", "2", "3", "4", "5", "6", "7", "8", "9">>

\* the i-th channel of the auto-join list
ChannelName(i) == <<"#", DigitOf[i]>>

\* auto-join lists: args.channels
ChannelLists == {[i \in 1..n |-> ChannelName(i)] : n \in 0..MaxChannels}

ev_ping == <<"p", "i", "n", "g">>
ev_join == <<"j", "o", "i", "n">>
ev_JOIN == <<"J", "O", "I", "N">>
ev_rpl_welcome == <<"r", "p", "l", "_", "w", "e", "l", "c", "o", "m", "e">>
ev_999 == <<"9", "9", "9">>

\* the signal names the hosts of this model subscribe to
EventNames == {ev_ping, ev_join, ev_JOIN, ev_rpl_welcome, ev_999}

\* frames the server sends: the bytes read_until(b'\n') returns
FramePingA == encode_utf8(<<"P", "I", "N", "G", " ", ":", "a", "\n">>)
FramePingTrail == encode_utf8(<<"P", "I", "N", "G", " ", ":", "b", " ", "\r", "\n">>)
FrameJoin == encode_utf8(<<":", "n", "!", "u", "@", "h", " ", "J", "O", "I", "N", " ", "#", "c", "\n">>)
FrameJoinLower == encode_utf8(<<":", "n", "!", "u", "@", "h", " ", "j", "o", "i", "n", " ", "#", "c", "\n">>)
FrameWelcome == encode_utf8(<<":", "s", " ", "0", "0", "1", " ", "m", "e", " ", ":", "h", "i", "\n">>)
\* b'PING\n': a PING without a token, on which on_ping(prefix) raises TypeError
FramePingBare == encode_utf8(<<"P", "I", "N", "G", "\n">>)
FrameUnknownNumeric == encode_utf8(<<":", "s", " ", "9", "9", "9", " ", "m", "e", "\n">>)

Frames == {FramePingA, FramePingTrail, FramePingBare, FrameJoin, FrameJoinLower,
           FrameWelcome, FrameUnknownNumeric}

\* b'PING :\xe9\n': a line that is not UTF-8
FrameLatin1 == encode_utf8(<<"P", "I", "N", "G", " ", ":">>) \o <<233, 10>>

\* the frames the server sends in the runs that explore the lifecycle
LifecycleFrames == {FramePingA, FrameJoin, FrameWelcome, FrameLatin1}

\* the closure _join_channel(channel) returns
inner_func(channel) == [fn |-> "inner_func", channel |-> channel]

\* callbacks of the host: one that only logs (IRCBot._on_privmsg), a one-shot
\* that unsubscribes itself, one that unsubscribes cbLog, one that
\* subscribes cbLog, and one that clears the signal
cbLog == [fn |-> "log", channel |-> <<>>]
cbOnce == [fn |-> "once", channel |-> <<>>]
cbRemoveLog == [fn |-> "remove_log", channel |-> <<>>]
cbAddLog == [fn |-> "add_log", channel |-> <<>>]
cbClear == [fn |-> "clear", channel |-> <<>>]

HostCallbacks == {cbLog, cbOnce, cbRemoveLog, cbAddLog, cbClear}

\* the (signal, callback) pairs the host may pass to add_callback
HostSubscriptions ==
    ({ev_ping, ev_join, ev_JOIN, ev_rpl_welcome, ev_999} \X {cbLog})
    \cup ({ev_join} \X {cbOnce, cbRemoveLog, cbAddLog, cbClear})

-----------------------------------------------------------------------------
(* pircel.protocol.IRCServerHandler *)

\* collections.defaultdict(set): a missing key reads as the empty set
Lookup(reg, signal) == IF signal \in DOMAIN reg THEN reg[signal] ELSE {}

\* add_callback(signal, callback)
add_callback(reg, signal, callback) ==
    [reg EXCEPT ![signal] = @ \cup {callback}]

\* remove_callback with set.discard in place of set.remove: no error for a
\* callback that is not subscribed
remove_callback_discard(reg, signal, callback) ==
    [exc |-> "none", reg |-> [reg EXCEPT ![signal] = @ \ {callback}]]

\* remove_callback(signal, callback): set.remove raises KeyError
remove_callback(reg, signal, callback) ==
    IF callback \in Lookup(reg, signal)
    THEN [exc |-> "none", reg |-> [reg EXCEPT ![signal] = @ \ {callback}]]
    ELSE [exc |-> "KeyError", reg |-> reg]

\* clear_callbacks(signal)
clear_callbacks(reg, signal) == [reg EXCEPT ![signal] = {}]

\* pong(value)
pong(value) == <<"P", "O", "N", "G", " ", ":">> \o value

\* join(channel), no password
join(channel) == <<"J", "O", "I", "N", " ">> \o channel

\* on_ping(prefix, token, *args): the lines written, or TypeError when the
\* line carries no token
on_ping(prefix, args) ==
    IF args = <<>> THEN [exc |-> "TypeError", writes |-> <<>>]
    ELSE [exc |-> "none", writes |-> <<pong(args[1])>>]

\* the on_<command> methods IRCServerHandler defines
BuiltinHandlers == {<<"o", "n", "_", "p", "i", "n", "g">>}

\* 'on_{}'.format(symbolic_command.lower())
handler_name(symbolic) == <<"o", "n", "_">> \o lower(symbolic)

\* the built-in handler run on (prefix, *args): the exception it raises and
\* the lines it writes
run_handler(name, prefix, args) == on_ping(prefix, args)

\* callback_key without the lower(): the symbolic command as received
callback_key_verbatim(symbolic) == symbolic

\* the key under which handle_line looks up the user callbacks
callback_key(symbolic) == lower(symbolic)

\* pass_members iterating the live set instead of a copy: a callback
\* unsubscribed during the pass is never reached
pass_members_live(snapshot, live) == snapshot \cap live

\* set(self.callbacks[key]): the callbacks a dispatch pass iterates over,
\* taken when the pass begins; live is the registry as it is now
pass_members(snapshot, live) == snapshot

\* connect(): the lines written before it returns or raises
connect_writes(id) ==
    IF "real_name" \in DOMAIN id
    THEN [exc |-> "none",
          writes |-> <<<<"N", "I", "C", "K", " ">> \o id.nick,
                       <<"U", "S", "E", "R", " ">> \o id.username \o <<" ", "0", " ", "*", " ", ":">> \o id.real_name>>]
    ELSE [exc |-> "AttributeError", writes |-> <<<<"N", "I", "C", "K", " ">> \o id.nick>>]

\* one user callback invoked as callback(engine, prefix, *args) during the
\* pass for signal: the registry after it, the lines it wrote, the
\* exception it raised
run_callback(cb, reg, signal) ==
    CASE cb.fn = "inner_func" ->
           LET r == remove_callback(reg, ev_rpl_welcome, cb)
           IN  [exc |-> r.exc, reg |-> r.reg, writes |-> <<join(cb.channel)>>]
      [] cb.fn = "log" -> [exc |-> "none", reg |-> reg, writes |-> <<>>]
      [] cb.fn = "once" ->
           LET r == remove_callback(reg, signal, cb)
           IN  [exc |-> r.exc, reg |-> r.reg, writes |-> <<>>]
      [] cb.fn = "remove_log" ->
           LET r == remove_callback(reg, signal, cbLog)
           IN  [exc |-> r.exc, reg |-> r.reg, writes |-> <<>>]
      [] cb.fn = "add_log" ->
           [exc |-> "none", reg |-> add_callback(reg, signal, cbLog), writes |-> <<>>]
      [] cb.fn = "clear" ->
           [exc |-> "none", reg |-> clear_callbacks(reg, signal), writes |-> <<>>]

\* write_function adding a newline whatever the line ends with
write_function_always_appends(line) == line \o <<"\n">>

\* LineStream.write_function(line): the text handed to connection.write
write_function(line) ==
    IF line[Len(line)] # "\n" THEN line \o <<"\n">> ELSE line

-----------------------------------------------------------------------------
(* State *)

VARIABLES
    host,         \* which host drives the engine: bot.IRCBot or an IRCClient
    identity,     \* IRCServerHandler.identity
    channels,     \* the auto-join list given to the host
    phase,        \* "new", "connected" (connect() returned), "failed" (it raised)
    loopRunning,  \* the IOLoop is running
    stopResult,   \* outcome of IRCClient.stop(): "none", "returned", "raised"
    connection,   \* LineStream.connection: "None", "open", "closed"
    connecting,   \* LineStream.connect is suspended on the TCP connect
    readPending,  \* a read_until(b'\n', handle_line) is outstanding
    timerRunning, \* ping_callback is started
    callbacks,    \* IRCServerHandler.callbacks
    out,          \* the lines the handler has handed to its write function
    nread,        \* number of frames read so far
    pc,           \* "idle", or "dispatch" inside IRCServerHandler.handle_line
    cur,          \* the locals of the current (or last) handle_line call
    welcomed,     \* an RPL_WELCOME line has been received
    tickStates,   \* the lifecycle states in which the keepalive timer ticked
    lastTick,     \* the last run of IRCClient._ping: state, exception, lines
    stops,        \* number of calls of IRCClient.stop() so far
    queued,       \* loop callbacks queued before stop() and still to run
    users,        \* Session Model: the User records, a record's place its id
    memberships,  \* Session Model: the Membership rows
    buffers,      \* Session Model: the names of the Buffer records
    lineRecords,  \* Session Model: the Line records
    sessionExc,   \* the exception a Session Model handler raised, or "none"
    lastEvent,    \* the last event handed to the Session Model
    lastActor,    \* id of the User that held the event's nick before it, or 0
    script,       \* steps of test_multi_change_nick done so far, -1 off it
    delivered,    \* the last line read_until handed to LineStream.handle_line
    handled,      \* number of calls of line_callback (the handler's handle_line)
    call          \* the last call of a function of the codec: its name,
                  \* arguments, exception (or "none") and return value

vars == <<host, identity, channels, phase, loopRunning, stopResult, connection,
          connecting, readPending, timerRunning, callbacks, out, nread, pc,
          cur, welcomed, tickStates, lastTick, stops, queued, users,
          memberships, buffers, lineRecords, sessionExc, lastEvent,
          lastActor, script, delivered, handled, call>>

config == <<host, identity, channels>>

session == <<users, memberships, buffers, lineRecords, sessionExc, lastEvent,
             lastActor, script>>

engine == <<phase, loopRunning, stopResult, connection, connecting,
            readPending, timerRunning, callbacks, out, nread, pc, cur,
            welcomed, tickStates, lastTick, stops, queued, delivered,
            handled>>

reads == <<delivered, handled>>

EmptyRegistry == [s \in EventNames |-> {}]

NoDispatch ==
    [status |-> "none", frame |-> <<>>, prefix |-> <<>>, command |-> <<>>,
     args |-> <<>>, key |-> <<>>, plan |-> <<>>, iterating |-> FALSE,
     registry0 |-> EmptyRegistry, out0 |-> 0, snapshot |-> {}, todo |-> {},
     calls |-> <<>>, exc |-> "none"]

\* no event handed to the Session Model yet
NoEvent == [command |-> "none", prefix |-> <<>>, args |-> <<>>]

\* no function of the codec called yet
NoCall == [fn |-> "none", args |-> <<>>, exc |-> "none", result |-> <<>>]

\* no run of IRCClient._ping yet
NoTick == [state |-> "none", exc |-> "none", written |-> <<>>]

\* the PeriodicCallback created and started by the constructor
timer_started_at_construction == TRUE

\* IRCClient.__init__ creates no ping_callback
timer_started_in_init == FALSE

\* the lifecycle state of section 4.5, read off the controller's fields
ControllerState ==
    IF stopResult = "returned" THEN "Closed"
    ELSE IF phase = "new" THEN "Disconnected"
    ELSE IF connection = "None" THEN "Connecting"
    ELSE IF ~welcomed THEN "AwaitingWelcome"
    ELSE "Registered"

Init ==
    /\ host \in Hosts
    /\ identity \in Identities(host)
    /\ channels \in ChannelLists
    /\ phase = "new"
    /\ loopRunning = FALSE
    /\ stopResult = "none"
    /\ connection = "None"
    /\ connecting = FALSE
    /\ readPending = FALSE
    /\ timerRunning = timer_started_in_init
    /\ callbacks = EmptyRegistry
    /\ out = <<>>
    /\ nread = 0
    /\ pc = "idle"
    /\ cur = NoDispatch
    /\ welcomed = FALSE
    /\ tickStates = {}
    /\ lastTick = NoTick
    /\ stops = 0
    /\ queued = {}
    /\ users = <<>>
    /\ memberships = <<>>
    /\ buffers = {}
    /\ lineRecords = <<>>
    /\ sessionExc = "none"
    /\ lastEvent = NoEvent
    /\ lastActor = 0
    /\ script = 0
    /\ delivered = <<>>
    /\ handled = 0
    /\ call = NoCall

-----------------------------------------------------------------------------
(* The host: subscriptions, connect(), start(), stop() *)

HostSubscribed == {p \in HostSubscriptions : p[2] \in callbacks[p[1]]}

\* server_handler.add_callback(signal, callback), before connecting
AddCallback(signal, cb) ==
    /\ phase = "new"
    /\ <<signal, cb>> \in HostSubscriptions \ HostSubscribed
    /\ Cardinality(HostSubscribed) < MaxSubs
    /\ callbacks' = add_callback(callbacks, signal, cb)
    /\ UNCHANGED <<config, session, call, reads, phase, loopRunning, stopResult, connection,
                   connecting, readPending, timerRunning, out, nread, pc, cur,
                   welcomed, tickStates, lastTick, stops, queued>>

\* the auto-join subscriptions of bot.IRCBot.__init__
autojoin_subscribed(reg, chans) ==
    [reg EXCEPT ![ev_rpl_welcome] =
        @ \cup {inner_func(chans[i]) : i \in DOMAIN chans}]

\* bot.IRCBot.__init__: line_stream.connect(...), then one add_callback per
\* channel
BotConnect ==
    /\ host = "bot"
    /\ phase = "new"
    /\ connecting' = TRUE
    /\ callbacks' = autojoin_subscribed(callbacks, channels)
    /\ phase' = "connected"
    /\ UNCHANGED <<config, session, call, reads, loopRunning, stopResult, connection, readPending,
                   timerRunning, out, nread, pc, cur, welcomed, tickStates, lastTick, stops, queued>>

\* IRCClient.connect(): starts the PeriodicCallback, calls
\* line_stream.connect(...), then add_callback(..., weak=False) for each
\* channel, a keyword IRCServerHandler.add_callback does not take (TypeError)
ClientConnect ==
    /\ host = "client"
    /\ phase = "new"
    /\ timerRunning' = TRUE
    /\ connecting' = TRUE
    /\ phase' = IF channels = <<>> THEN "connected" ELSE "failed"
    /\ UNCHANGED <<config, session, call, reads, loopRunning, stopResult, connection, readPending,
                   callbacks, out, nread, pc, cur, welcomed, tickStates, lastTick, stops, queued>>

\* IRCClient.start() / bot.LineStream.start(): reached only when connect()
\* returned
Start ==
    /\ phase = "connected"
    /\ ~loopRunning
    /\ stopResult = "none"
    /\ loopRunning' = TRUE
    /\ UNCHANGED <<config, session, call, reads, phase, stopResult, connection, connecting,
                   readPending, timerRunning, callbacks, out, nread, pc, cur,
                   welcomed, tickStates, lastTick, stops, queued>>

\* a host that catches the exception connect() raised and starts the loop
\* all the same: the timer and the TCP connect are already with the loop
StartAfterConnectRaised ==
    /\ phase = "failed"
    /\ ~loopRunning
    /\ stopResult = "none"
    /\ loopRunning' = TRUE
    /\ UNCHANGED <<config, session, call, reads, phase, stopResult, connection, connecting,
                   readPending, timerRunning, callbacks, out, nread, pc, cur,
                   welcomed, tickStates, lastTick, stops, queued>>

\* the work a running loop may hold queued for its current iteration: the
\* resumption of LineStream.connect once the TCP connect is made, the
\* delivery of a line the pending read has received
Outstanding ==
    IF ~loopRunning THEN {}
    ELSE (IF connecting THEN {"connect"} ELSE {})
         \cup (IF readPending /\ connection = "open" /\ nread < MaxLines
               THEN {"read"} ELSE {})

\* IRCClient.stop(): closes the connection when there is one (a pending read
\* is dropped with it), stops ping_callback (an attribute only connect()
\* sets), stops the IOLoop. q is the work the loop had queued before the
\* call: IOLoop.stop() lets the loop finish its iteration, so it may still run
Stop(q) ==
    /\ host = "client"
    /\ pc = "idle"
    /\ stops < MaxStops
    /\ q \subseteq Outstanding
    /\ stops' = stops + 1
    /\ connection' = IF connection = "None" THEN "None" ELSE "closed"
    /\ IF phase = "new"
       THEN /\ stopResult' = "raised"
            /\ UNCHANGED <<timerRunning, loopRunning, readPending, queued>>
       ELSE /\ stopResult' = "returned"
            /\ timerRunning' = FALSE
            /\ loopRunning' = FALSE
            /\ readPending' = FALSE
            /\ queued' = queued \cup q
    /\ UNCHANGED <<config, session, call, reads, phase, connecting, callbacks, out, nread, pc, cur,
                   welcomed, tickStates, lastTick>>

-----------------------------------------------------------------------------
(* The IO loop: connection, keepalive timer, read loop *)

\* LineStream.connect resumes: the connection is kept, connect_callback()
\* runs IRCServerHandler.connect(), and _schedule_line() follows unless the
\* callback raised
ConnectSucceeds ==
    /\ (loopRunning \/ "connect" \in queued)
    /\ pc = "idle"
    /\ connecting
    /\ LET c == connect_writes(identity)
       IN  /\ out' = out \o c.writes
           /\ readPending' = (c.exc = "none")
    /\ connecting' = FALSE
    /\ connection' = "open"
    /\ queued' = queued \ {"connect"}
    /\ UNCHANGED <<config, session, call, reads, phase, loopRunning, stopResult, timerRunning,
                   callbacks, nread, pc, cur, welcomed, tickStates, lastTick,
                   stops>>

\* the attributes an IRCServerHandler has: those of its class and those
\* __init__ and the write_function setter set
IRCServerHandlerAttributes ==
    {"identity", "callbacks", "_write", "handle_line", "log_unhandled",
     "write_function", "pong", "connect", "who", "join",
     "_split_line_channel_command", "send_message", "send_notice",
     "add_callback", "remove_callback", "clear_callbacks", "on_ping"}

\* IRCClient._ping: self.server_handler.send_ping(<timestamp>); the
\* attribute lookup fails before anything is called or written
IRCClient_ping ==
    [exc |-> IF "send_ping" \in IRCServerHandlerAttributes
             THEN "none" ELSE "AttributeError",
     writes |-> <<>>]

\* the PeriodicCallback fires IRCClient._ping; the loop logs what it raises
Tick ==
    /\ loopRunning
    /\ pc = "idle"
    /\ timerRunning
    /\ tickStates' = tickStates \cup {ControllerState}
    /\ LET t == IRCClient_ping
       IN  /\ out' = out \o t.writes
           /\ lastTick' = [state |-> ControllerState, exc |-> t.exc,
                           written |-> t.writes]
    /\ UNCHANGED <<config, session, call, reads, phase, loopRunning, stopResult, connection,
                   connecting, readPending, timerRunning, callbacks,
                   nread, pc, cur, welcomed, stops, queued>>

\* dispatch_plan with the user callbacks published before the built-in
\* handler runs
dispatch_plan_callbacks_first == <<"callbacks", "handler">>

\* the order of the two parts of handle_line after the command is normalised
dispatch_plan == <<"handler", "callbacks">>

\* lookup_handler without the except clause: the AttributeError of a missing
\* handler leaves handle_line
lookup_handler_uncaught(name) ==
    [exc |-> IF name \in BuiltinHandlers THEN "none" ELSE "AttributeError",
     found |-> name \in BuiltinHandlers]

\* getattr(self, handler_name): AttributeError is caught and logged
lookup_handler(name) ==
    [exc |-> "none", found |-> name \in BuiltinHandlers]

\* handler(prefix, *args)
handler_args(prefix, args) == <<prefix>> \o args

\* callback_args without the prefix
callback_args_without_prefix(prefix, args) == args

\* callback(self, prefix, *args): the arguments after the engine itself
callback_args(prefix, args) == <<prefix>> \o args

\* the entry of cur.calls that stands for the built-in handler; its field at
\* is the number of lines written when it returned, a user callback's the
\* number written when it was called
BuiltinCall == [fn |-> "builtin", channel |-> <<>>]

\* LineStream._schedule_line(): connection.read_until(b'\n', handle_line);
\* a closed connection takes no read
schedule_line(conn) == conn = "open"

\* no line_callback set on the LineStream
line_callback_is_none == FALSE

\* IRCClient.__init__ / IRCBot.__init__ set line_callback to the handler's
\* handle_line, so 'self.line_callback is not None' holds
line_callback_set == TRUE

\* LineStream.handle_line with self._schedule_line() moved before
\* self.line_callback(line)
schedule_line_before_callback == TRUE

\* LineStream.handle_line calls self.line_callback(line) and only then
\* self._schedule_line()
schedule_line_first == FALSE

\* LineStream.handle_line(frame): the read completes and
\* IRCServerHandler.handle_line parses the line and normalises its command;
\* an unknown numeric is logged and handle_line returns, after which the
\* next read is scheduled
ReadLine(frame) ==
    /\ pc = "idle"
    /\ (loopRunning /\ readPending /\ connection = "open") \/ "read" \in queued
    /\ nread < MaxLines
    /\ nread' = nread + 1
    /\ delivered' = frame
    /\ queued' = queued \ {"read"}
    /\ handled' = IF line_callback_set THEN handled + 1 ELSE handled
    /\ \E encoding \in chardet_detect(frame) :
       LET p == parse_line(frame, encoding)
           g == get_symbolic_command(p.command)
           base == [NoDispatch EXCEPT !.frame = frame,
                                      !.registry0 = callbacks,
                                      !.out0 = Len(out)]
       IN  IF ~line_callback_set
           THEN /\ readPending' = schedule_line(connection)
                /\ UNCHANGED <<cur, pc, welcomed>>
           ELSE IF p.exc # "none"
           THEN /\ cur' = [base EXCEPT !.status = "raised", !.exc = p.exc]
                /\ readPending' = (schedule_line_first /\ schedule_line(connection))
                /\ UNCHANGED <<pc, welcomed>>
           ELSE IF g.exc # "none"
           THEN /\ cur' = [base EXCEPT !.status = "returned",
                                       !.prefix = p.prefix,
                                       !.command = p.command,
                                       !.args = p.args]
                /\ readPending' = schedule_line(connection)
                /\ UNCHANGED <<pc, welcomed>>
           ELSE /\ cur' = [base EXCEPT !.status = "running",
                                       !.prefix = p.prefix,
                                       !.command = p.command,
                                       !.args = p.args,
                                       !.key = g.symbolic,
                                       !.plan = dispatch_plan]
                /\ readPending' = (schedule_line_first /\ schedule_line(connection))
                /\ pc' = "dispatch"
                /\ welcomed' = (welcomed \/ g.symbolic = <<"R", "P", "L", "_", "W", "E", "L", "C", "O", "M", "E">>)
    /\ UNCHANGED <<config, session, call, phase, loopRunning, stopResult, connection,
                   connecting, timerRunning, callbacks, out, tickStates,
                   lastTick, stops>>

\* what a write of lines does on the connection as it is: connection.write
\* on a closed stream raises and sends nothing
connection_write(conn, exc, lines) ==
    IF lines # <<>> /\ conn # "open"
    THEN [exc |-> "StreamClosedError", writes |-> <<>>]
    ELSE [exc |-> exc, writes |-> lines]

\* handle_line, lines 193-199: the built-in handler, when there is one
HandlerStep ==
    /\ pc = "dispatch"
    /\ cur.plan # <<>>
    /\ Head(cur.plan) = "handler"
    /\ LET name == handler_name(cur.key)
           l == lookup_handler(name)
           h0 == run_handler(name, cur.prefix, cur.args)
           h == connection_write(connection, h0.exc, h0.writes)
       IN  IF l.exc # "none"
           THEN /\ cur' = [cur EXCEPT !.status = "raised", !.exc = l.exc]
                /\ pc' = "idle"
                /\ out' = out
           ELSE IF ~l.found
           THEN /\ cur' = [cur EXCEPT !.plan = Tail(@)]
                /\ UNCHANGED <<pc, out>>
           ELSE /\ out' = out \o h.writes
                /\ IF h.exc # "none"
                   THEN /\ cur' = [cur EXCEPT !.status = "raised",
                                              !.exc = h.exc]
                        /\ pc' = "idle"
                   ELSE /\ cur' = [cur EXCEPT
                              !.plan = Tail(@),
                              !.calls = Append(@, [who |-> BuiltinCall,
                                  argv |-> handler_args(cur.prefix, cur.args),
                                  at |-> Len(out) + Len(h.writes)])]
                        /\ pc' = pc
    /\ UNCHANGED <<config, session, call, reads, phase, loopRunning, stopResult, connection,
                   connecting, readPending, timerRunning, callbacks, nread,
                   welcomed, tickStates, lastTick, stops, queued>>

\* handle_line, line 202: set(self.callbacks[symbolic_command.lower()])
SnapshotStep ==
    /\ pc = "dispatch"
    /\ cur.plan # <<>>
    /\ Head(cur.plan) = "callbacks"
    /\ ~cur.iterating
    /\ LET s == Lookup(callbacks, callback_key(cur.key))
       IN  cur' = IF s = {}
                  THEN [cur EXCEPT !.plan = Tail(@)]
                  ELSE [cur EXCEPT !.iterating = TRUE, !.snapshot = s,
                                   !.todo = s]
    /\ UNCHANGED <<config, session, call, reads, phase, loopRunning, stopResult, connection,
                   connecting, readPending, timerRunning, callbacks, out,
                   nread, pc, welcomed, tickStates, lastTick, stops, queued>>

\* handle_line, line 203: callback(self, prefix, *args), for the next
\* callback of the pass; an exception leaves handle_line
CallUser(cb) ==
    /\ pc = "dispatch"
    /\ cur.plan # <<>>
    /\ Head(cur.plan) = "callbacks"
    /\ cur.iterating
    /\ cb \in pass_members(cur.todo, Lookup(callbacks, callback_key(cur.key)))
    /\ LET r0 == run_callback(cb, callbacks, callback_key(cur.key))
           w == connection_write(connection, r0.exc, r0.writes)
           r == [exc |-> w.exc, writes |-> w.writes,
                 reg |-> IF w.exc = r0.exc THEN r0.reg ELSE callbacks]
           todo == cur.todo \ {cb}
           rest == pass_members(todo, Lookup(r.reg, callback_key(cur.key)))
           called == Append(cur.calls,
                        [who |-> cb, argv |-> callback_args(cur.prefix, cur.args),
                         at |-> Len(out)])
       IN  /\ callbacks' = r.reg
           /\ out' = out \o r.writes
           /\ IF r.exc # "none"
              THEN /\ cur' = [cur EXCEPT !.status = "raised", !.exc = r.exc,
                                         !.todo = todo, !.calls = called]
                   /\ pc' = "idle"
              ELSE /\ cur' = [cur EXCEPT
                         !.todo = todo, !.calls = called,
                         !.iterating = (rest # {}),
                         !.plan = IF rest = {} THEN Tail(@) ELSE @]
                   /\ pc' = pc
    /\ UNCHANGED <<config, session, call, reads, phase, loopRunning, stopResult, connection,
                   connecting, readPending, timerRunning, nread, welcomed,
                   tickStates, lastTick, stops, queued>>

\* handle_line returns, and LineStream.handle_line schedules the next read
Return ==
    /\ pc = "dispatch"
    /\ cur.plan = <<>>
    /\ cur' = [cur EXCEPT !.status = "returned"]
    /\ pc' = "idle"
    /\ readPending' = IF schedule_line_first THEN readPending
                      ELSE schedule_line(connection)
    /\ UNCHANGED <<config, session, call, reads, phase, loopRunning, stopResult, connection,
                   connecting, timerRunning, callbacks, out, nread, welcomed,
                   tickStates, lastTick, stops, queued>>

-----------------------------------------------------------------------------

Next ==
    \/ \E p \in HostSubscriptions : AddCallback(p[1], p[2])
    \/ BotConnect
    \/ ClientConnect
    \/ Start
    \/ Stop({})
    \/ ConnectSucceeds
    \/ Tick
    \/ \E f \in Frames : ReadLine(f)
    \/ HandlerStep
    \/ SnapshotStep
    \/ \E cb \in cur.snapshot : CallUser(cb)
    \/ Return

Spec == Init /\ [][Next]_vars

\* the subscriptions the host makes in the runs that explore the lifecycle
LifecycleSubscriptions == {<<ev_join, cbLog>>}

\* the lifecycle explored with every host behaviour: a host that goes on
\* after connect() raised, stop() called while the loop holds queued work
NextLifecycle ==
    \/ \E p \in LifecycleSubscriptions : AddCallback(p[1], p[2])
    \/ BotConnect
    \/ ClientConnect
    \/ Start
    \/ StartAfterConnectRaised
    \/ \E q \in SUBSET {"connect", "read"} : Stop(q)
    \/ ConnectSucceeds
    \/ Tick
    \/ \E f \in LifecycleFrames : ReadLine(f)
    \/ HandlerStep
    \/ SnapshotStep
    \/ \E cb \in cur.snapshot : CallUser(cb)
    \/ Return

SpecLifecycle == Init /\ [][NextLifecycle]_vars

-----------------------------------------------------------------------------
(* The Session Model (pircel.model.IRCServerInterface), driven as           *)
(* tests/test_model.py drives it: one handler call per event                *)

\* str.split(sep): the parts between the occurrences of sep
RECURSIVE split(_, _)
split(s, sep) ==
    LET i == find(s, sep)
    IN  IF i = 0 THEN <<s>>
        ELSE <<SubSeq(s, 1, i - 1)>> \o split(SubSeq(s, i + Len(sep), Len(s)), sep)

\* str.startswith('~') and the slice [1:] that follows it
without_tilde(username) ==
    IF username # <<>> /\ Head(username) = "~" THEN Tail(username) ELSE username

\* parse_identity with the two separators taken in the other order
parse_identity_at_first(who) ==
    LET a == split(who, <<"@">>)
    IN  IF Len(a) # 2 THEN Raise("ValueError")
        ELSE LET b == split(a[2], <<"!">>)
             IN  IF Len(b) # 2 THEN Raise("ValueError")
                 ELSE [exc |-> "none", nick |-> a[1],
                       username |-> without_tilde(b[1]), host |-> b[2]]

\* parse_identity keeping everything before the '@' as the nick
parse_identity_nick_to_at(who) ==
    LET a == split(who, <<"@">>)
    IN  IF Len(a) # 2 THEN Raise("ValueError")
        ELSE [exc |-> "none", nick |-> a[1], username |-> <<>>, host |-> a[2]]

\* parse_identity(who): each unpacking needs exactly two parts
parse_identity(who) ==
    LET a == split(who, <<"!">>)
    IN  IF Len(a) # 2 THEN Raise("ValueError")
        ELSE LET b == split(a[2], <<"@">>)
             IN  IF Len(b) # 2 THEN Raise("ValueError")
                 ELSE [exc |-> "none", nick |-> a[1],
                       username |-> without_tilde(b[1]), host |-> b[2]]

\* the nicks, the channel and the local nick of tests/test_model.py
SessionNicks == {<<"n">>, <<"m">>}
SessionChannels == {<<"#", "c">>}
LocalNick == <<"p", "e", "r", "c", "y">>

\* the prefix the tests give a nick: '<nick>!~u@h'
Prefix(nick) == nick \o <<"!", "~", "u", "@", "h">>

\* parse_identity of the prefixes the events carry, computed once
SessionPrefixes == {Prefix(nick) : nick \in SessionNicks}
parsed_identity == [who \in SessionPrefixes |-> parse_identity(who)]

\* parse_identity(who), looked up where it is computed already
identity_of(who) ==
    IF who \in SessionPrefixes THEN parsed_identity[who] ELSE parse_identity(who)

\* the Session Model as one value
Session ==
    [users |-> users, memberships |-> memberships, buffers |-> buffers,
     lineRecords |-> lineRecords]

\* holders counting the records whose nick slot is inactive too
holders_ignoring_current(us, nick) == {id \in DOMAIN us : us[id].nick = nick}

\* the ids of the User records that hold nick with current = true
holders(us, nick) == {id \in DOMAIN us : us[id].nick = nick /\ us[id].current}

\* the id under which a nick is found, 0 when no User holds it
get_user(us, nick) ==
    IF holders(us, nick) = {} THEN 0
    ELSE CHOOSE id \in holders(us, nick) : \A j \in holders(us, nick) : id <= j

\* resolve_user creating a record whether the nick is held or not
resolve_user_always_create(us, nick) ==
    [users |-> Append(us, [nick |-> nick, current |-> TRUE]), id |-> Len(us) + 1]

\* resolve the User holding nick, created when the nick is unseen
resolve_user(us, nick) ==
    IF get_user(us, nick) # 0
    THEN [users |-> us, id |-> get_user(us, nick)]
    ELSE [users |-> Append(us, [nick |-> nick, current |-> TRUE]),
          id |-> Len(us) + 1]

\* create the Membership of (user, buffer) if absent
add_membership(ms, id, buffer) ==
    IF \E i \in DOMAIN ms : ms[i] = [user |-> id, buffer |-> buffer]
    THEN ms
    ELSE Append(ms, [user |-> id, buffer |-> buffer])

\* delete the Membership of (user, buffer) if present
remove_membership(ms, id, buffer) ==
    SelectSeq(ms, LAMBDA r : r # [user |-> id, buffer |-> buffer])

\* remove_memberships deleting the rows of every user
remove_memberships_of_all(ms, id) == <<>>

\* delete all Membership rows of a user
remove_memberships(ms, id) == SelectSeq(ms, LAMBDA r : r.user # id)

\* reassign the Membership rows of the users in from to the user to
RECURSIVE reassign_memberships(_, _, _)
reassign_memberships(ms, from, to) ==
    LET I == {i \in DOMAIN ms : ms[i].user \in from}
    IN  IF I = {} THEN ms
        ELSE LET i == CHOOSE k \in I : \A j \in I : k <= j
                 rest == SubSeq(ms, 1, i - 1) \o SubSeq(ms, i + 1, Len(ms))
             IN  reassign_memberships(add_membership(rest, to, ms[i].buffer),
                                      from, to)

\* retire_nick_slot leaving the stale records as they are
retire_nick_slot_skipped(us, ids) == us

\* mark the nick slot of the records ids inactive
retire_nick_slot(us, ids) ==
    [id \in DOMAIN us |->
        IF id \in ids THEN [us[id] EXCEPT !.current = FALSE] ELSE us[id]]

\* a handler's result when it raised: the model is as it was
SessionRaised(S, e) ==
    [exc |-> e, users |-> S.users, memberships |-> S.memberships,
     buffers |-> S.buffers, lineRecords |-> S.lineRecords]

\* _handle_join(_, prefix=..., args=[channel])
_handle_join(S, prefix, args) ==
    LET p == identity_of(prefix)
    IN  IF p.exc # "none" THEN SessionRaised(S, p.exc)
        ELSE LET r == resolve_user(S.users, p.nick)
             IN  [exc |-> "none", users |-> r.users,
                  memberships |-> add_membership(S.memberships, r.id, args[1]),
                  buffers |-> S.buffers \cup {args[1]},
                  lineRecords |-> S.lineRecords]

\* _handle_part(_, prefix=..., args=[channel])
_handle_part(S, prefix, args) ==
    LET p == identity_of(prefix)
    IN  IF p.exc # "none" THEN SessionRaised(S, p.exc)
        ELSE LET r == resolve_user(S.users, p.nick)
             IN  [exc |-> "none", users |-> r.users,
                  memberships |-> remove_membership(S.memberships, r.id, args[1]),
                  buffers |-> S.buffers \cup {args[1]},
                  lineRecords |-> S.lineRecords]

\* _handle_kick(_, prefix=..., args=[channel, nick]): the user kicked leaves
_handle_kick(S, prefix, args) ==
    LET p == identity_of(prefix)
    IN  IF p.exc # "none" THEN SessionRaised(S, p.exc)
        ELSE LET r == resolve_user(S.users, args[2])
             IN  [exc |-> "none", users |-> r.users,
                  memberships |-> remove_membership(S.memberships, r.id, args[1]),
                  buffers |-> S.buffers \cup {args[1]},
                  lineRecords |-> S.lineRecords]

\* _handle_nick(_, prefix=..., args=[new_nick]): the User holding the old nick
\* takes the new one; a different record that holds the new nick has its
\* nick slot marked inactive and its Membership rows reassigned
_handle_nick(S, prefix, args) ==
    LET p == identity_of(prefix)
    IN  IF p.exc # "none" THEN SessionRaised(S, p.exc)
        ELSE LET r == resolve_user(S.users, p.nick)
                 stale == holders(r.users, args[1]) \ {r.id}
                 retired == retire_nick_slot(r.users, stale)
             IN  [exc |-> "none",
                  users |-> [retired EXCEPT ![r.id].nick = args[1]],
                  memberships |-> reassign_memberships(S.memberships, stale, r.id),
                  buffers |-> S.buffers,
                  lineRecords |-> S.lineRecords]

\* _handle_quit(_, prefix=..., args=[]): the User stays, its rows go
_handle_quit(S, prefix, args) ==
    LET p == identity_of(prefix)
    IN  IF p.exc # "none" THEN SessionRaised(S, p.exc)
        ELSE LET r == resolve_user(S.users, p.nick)
             IN  [exc |-> "none", users |-> r.users,
                  memberships |-> remove_memberships(S.memberships, r.id),
                  buffers |-> S.buffers,
                  lineRecords |-> S.lineRecords]

\* _handle_privmsg / _handle_notice(_, prefix=..., args=[target, text]): a
\* Line in the target's buffer, the sender's own buffer when the target is
\* the local nick
_handle_privmsg(S, prefix, args) ==
    LET p == identity_of(prefix)
    IN  IF p.exc # "none" THEN SessionRaised(S, p.exc)
        ELSE LET r == resolve_user(S.users, p.nick)
                 buffer == IF args[1] = LocalNick THEN p.nick ELSE args[1]
             IN  [exc |-> "none", users |-> r.users,
                  memberships |-> S.memberships,
                  buffers |-> S.buffers \cup {buffer},
                  lineRecords |-> Append(S.lineRecords,
                                         [buffer |-> buffer, user |-> r.id,
                                          text |-> args[2]])]

\* the handler of a command
session_handler(command, S, prefix, args) ==
    CASE command = "JOIN" -> _handle_join(S, prefix, args)
      [] command = "PART" -> _handle_part(S, prefix, args)
      [] command = "KICK" -> _handle_kick(S, prefix, args)
      [] command = "NICK" -> _handle_nick(S, prefix, args)
      [] command = "QUIT" -> _handle_quit(S, prefix, args)
      [] command \in {"PRIVMSG", "NOTICE"} -> _handle_privmsg(S, prefix, args)

\* the calls of test_multi_change_nick, in order
TestMultiChangeNick ==
    <<[command |-> "JOIN", prefix |-> Prefix(<<"n">>), args |-> <<<<"#", "c">>>>],
      [command |-> "PART", prefix |-> Prefix(<<"n">>), args |-> <<<<"#", "c">>>>],
      [command |-> "JOIN", prefix |-> Prefix(<<"m">>), args |-> <<<<"#", "c">>>>],
      [command |-> "NICK", prefix |-> Prefix(<<"m">>), args |-> <<<<"n">>>>],
      [command |-> "PART", prefix |-> Prefix(<<"n">>), args |-> <<<<"#", "c">>>>],
      [command |-> "JOIN", prefix |-> Prefix(<<"m">>), args |-> <<<<"#", "c">>>>],
      [command |-> "NICK", prefix |-> Prefix(<<"m">>), args |-> <<<<"n">>>>]>>

\* one event: the handler of its command is called. nick is the nick the
\* prefix stands for. Events stop once a handler raised; the bounds leave out
\* an event that would create a record beyond them
SessionEvent(command, nick, args) ==
    /\ sessionExc = "none"
    /\ \E e \in {[command |-> command, prefix |-> Prefix(nick), args |-> args]},
          r \in {session_handler(command, Session, Prefix(nick), args)} :
           /\ Len(r.users) <= MaxUsers
           /\ Len(r.lineRecords) <= MaxSessionLines
           /\ users' = r.users
           /\ memberships' = r.memberships
           /\ buffers' = r.buffers
           /\ lineRecords' = r.lineRecords
           /\ sessionExc' = r.exc
           /\ lastEvent' = e
           /\ lastActor' = get_user(users, nick)
           /\ script' = IF script >= 0 /\ script < Len(TestMultiChangeNick)
                           /\ TestMultiChangeNick[script + 1] = e
                        THEN script + 1 ELSE -1
    /\ UNCHANGED <<config, engine, call>>

\* a user has live memberships
live(ms, id) == \E i \in DOMAIN ms : ms[i].user = id

JoinEvent(nick, channel) == SessionEvent("JOIN", nick, <<channel>>)

PartEvent(nick, channel) == SessionEvent("PART", nick, <<channel>>)

KickEvent(nick, channel, kicked) == SessionEvent("KICK", nick, <<channel, kicked>>)

\* a server lets a user take a nick only when no one present holds it: the
\* record that holds the new nick, if any, has no live membership
NickEvent(nick, new) ==
    /\ \A id \in holders(users, new) \ {get_user(users, nick)} : ~live(memberships, id)
    /\ SessionEvent("NICK", nick, <<new>>)

QuitEvent(nick) == SessionEvent("QUIT", nick, <<>>)

PrivmsgEvent(nick, target) == SessionEvent("PRIVMSG", nick, <<target, <<"h", "i">>>>)

NoticeEvent(nick, target) == SessionEvent("NOTICE", nick, <<target, <<"h", "i">>>>)

NextSession ==
    \/ \E nick \in SessionNicks, channel \in SessionChannels : JoinEvent(nick, channel)
    \/ \E nick \in SessionNicks, channel \in SessionChannels : PartEvent(nick, channel)
    \/ \E nick, kicked \in SessionNicks, channel \in SessionChannels :
           KickEvent(nick, channel, kicked)
    \/ \E nick, new \in SessionNicks : NickEvent(nick, new)
    \/ \E nick \in SessionNicks : QuitEvent(nick)
    \/ \E nick \in SessionNicks, target \in SessionChannels \cup {LocalNick} :
           PrivmsgEvent(nick, target)
    \/ \E nick \in SessionNicks, target \in SessionChannels \cup {LocalNick} :
           NoticeEvent(nick, target)

\* the Session Model of one bot, its engine left as constructed
InitSession == Init /\ host = "bot" /\ channels = <<>>

SpecSession == InitSession /\ [][NextSession]_vars

-----------------------------------------------------------------------------
(* The functions of the codec and of the write path, called on their own *)

\* the strings over an alphabet, up to a length
RECURSIVE StringsUpTo(_, _)
StringsUpTo(alphabet, n) ==
    IF n = 0 THEN {<<>>}
    ELSE LET shorter == StringsUpTo(alphabet, n - 1)
         IN  shorter \cup {Append(s, c) : s \in shorter, c \in alphabet}

\* the messages a host sends, and the targets it sends them to
MessageAlphabet == {"a", "b", "\n"}
Messages == StringsUpTo(MessageAlphabet, MaxMessageLen)
Targets == {<<"#", "c">>, <<"n">>}

\* _split_line_channel_command writing the message as it is, in one line
_split_line_channel_command_unsplit(command, channel, message) ==
    <<command \o <<" ">> \o channel \o <<" ", ":">> \o message>>

\* _split_line_channel_command(command, channel, message): the lines handed
\* to _write, one per part of message.split('\n')
_split_line_channel_command(command, channel, message) ==
    LET parts == split(message, <<"\n">>)
    IN  [i \in DOMAIN parts |->
            command \o <<" ">> \o channel \o <<" ", ":">> \o parts[i]]

send_message(channel, message) ==
    _split_line_channel_command(<<"P", "R", "I", "V", "M", "S", "G">>, channel, message)

send_notice(channel, message) ==
    _split_line_channel_command(<<"N", "O", "T", "I", "C", "E">>, channel, message)

\* a call of a function of the codec, the first made: its arguments, the
\* exception it raised and the value it returned are recorded
Called_(fn, args, exc, result) ==
    /\ call = NoCall
    /\ call' = [fn |-> fn, args |-> args, exc |-> exc, result |-> result]
    /\ UNCHANGED <<config, engine, session>>

SendMessage(channel, message) ==
    Called_("send_message", <<channel, message>>, "none",
            send_message(channel, message))

SendNotice(channel, message) ==
    Called_("send_notice", <<channel, message>>, "none",
            send_notice(channel, message))

\* the lines parse_line is given: every short line over the characters of
\* the grammar, bare and with the terminator of the wire, and the line of
\* the specification's example
LineAlphabet == {":", " ", "a", "b"}
ExampleLine ==
    <<":", "n", "i", "c", "k", "!", "u", "s", "e", "r", "@", "h", "o", "s", "t", " ", "P", "R", "I", "V", "M", "S", "G", " ", "#", "c", "h", "a", "n", " ", ":", "h", "e", "l", "l", "o", " ", "t", "h", "e", "r", "e">>
Lines ==
    LET short == StringsUpTo(LineAlphabet, MaxLineLen)
    IN  short \cup {s \o <<"\r", "\n">> : s \in short} \cup {ExampleLine}

\* parse_line(line) on the bytes of a line of text: the tuple it returns
ParseLine(text) ==
    \E encoding \in chardet_detect(encode_utf8(text)) :
        LET p == parse_line(encode_utf8(text), encoding)
        IN  Called_("parse_line", <<text>>, p.exc,
                    IF p.exc = "none" THEN <<p.prefix, p.command, p.args>>
                    ELSE <<>>)

\* the commands get_symbolic_command is given: every numeric of three digits,
\* numerics of other lengths, words and the empty string
Commands ==
    {<<a, b, c>> : a \in Digits, b \in Digits, c \in Digits}
        \cup {<<"1">>, <<"0", "0", "0", "1">>, <<>>, <<"P", "I", "N", "G">>, <<"j", "o", "i", "n">>}

GetSymbolicCommand(command) ==
    LET r == get_symbolic_command(command)
    IN  Called_("get_symbolic_command", <<command>>, r.exc,
                IF r.exc = "none" THEN r.symbolic ELSE <<>>)

\* LineStream.write_function(line) of a connected stream: the bytes handed
\* to connection.write, or the IndexError of line[-1] on an empty line
WriteFunction(line) ==
    IF line = <<>>
    THEN Called_("write_function", <<line>>, "IndexError", <<>>)
    ELSE Called_("write_function", <<line>>, "none", encode_utf8(write_function(line)))

NextCodec ==
    \/ \E line \in Messages : WriteFunction(line)
    \/ \E command \in Commands : GetSymbolicCommand(command)
    \/ \E text \in Lines : ParseLine(text)
    \/ \E channel \in Targets, message \in Messages : SendMessage(channel, message)
    \/ \E channel \in Targets, message \in Messages : SendNotice(channel, message)

\* a handler with its write function, nothing connected
InitCodec == Init /\ host = "bot" /\ channels = <<>>

SpecCodec == InitCodec /\ [][NextCodec]_vars

-----------------------------------------------------------------------------
(* Properties *)

\* the callbacks invoked so far by the current (or last) handle_line
Called == {cur.calls[i].who : i \in DOMAIN cur.calls} \ {BuiltinCall}

\* the frames whose command is PING, the one command with a built-in handler
PingFrames == {FramePingA, FramePingTrail}

\* handle_line got past the normalisation of the command
Dispatched == cur.status # "none" /\ cur.key # <<>>

\* C1: a user callback of a line is invoked only after the built-in handler
\* of that line, when the command has one, has returned (its PONG is
\* written), and it is called with the prefix and args the handler got.
C1_HandlerBeforeCallbacks ==
    \A i \in DOMAIN cur.calls :
        (cur.frame \in PingFrames /\ cur.calls[i].who # BuiltinCall) =>
            \E j \in 1..(i - 1) :
                /\ cur.calls[j].who = BuiltinCall
                /\ cur.calls[j].at = cur.out0 + 1
                /\ cur.calls[j].at <= cur.calls[i].at
                /\ cur.calls[j].argv = cur.calls[i].argv

\* a PING line for which the built-in handler and then a user callback ran
C1_Witness ==
    /\ cur.frame \in PingFrames
    /\ Len(cur.calls) >= 2
    /\ cur.calls[1].who = BuiltinCall
    /\ cur.calls[2].who = cbLog

\* the callbacks subscribed to the event when the dispatch pass began
PassSubscribers == Lookup(cur.registry0, callback_key(cur.key))

RECURSIVE chomp(_)
chomp(s) ==
    IF s # <<>> /\ s[Len(s)] \in {"\r", "\n"}
    THEN chomp(SubSeq(s, 1, Len(s) - 1))
    ELSE s

\* the text of a frame, line terminator removed
WireLine(frame) == chomp([i \in 1..Len(frame) |-> AsciiChr[frame[i]]])

\* the token of a frame 'PING :<token>' as it is on the wire
WireToken(frame) ==
    SubSeq(WireLine(frame), Len(<<"P", "I", "N", "G", " ", ":">>) + 1,
           Len(WireLine(frame)))

\* the lines the built-in handler of the current line wrote
HandlerOutput(i) == SubSeq(out, cur.out0 + 1, cur.calls[i].at)

\* C3: the built-in handler answers 'PING :<token>' with exactly one line,
\* 'PONG :<token>', carrying the very token of the PING.
C3_PongCarriesToken ==
    \A i \in DOMAIN cur.calls :
        (cur.frame \in PingFrames /\ cur.calls[i].who = BuiltinCall) =>
            HandlerOutput(i) = <<<<"P", "O", "N", "G", " ", ":">> \o WireToken(cur.frame)>>

\* the real name an identity was configured with, under either spelling of
\* the field
RealName(id) == IF "real_name" \in DOMAIN id THEN id.real_name ELSE id.realname

\* the two lines of the registration request
RegistrationLines ==
    <<<<"N", "I", "C", "K", " ">> \o identity.nick,
      <<"U", "S", "E", "R", " ">> \o identity.username \o <<" ", "0", " ", "*", " ", ":">> \o RealName(identity)>>

\* C4: once connect() has run, and before any line is handled, the lines
\* written are exactly 'NICK <nick>' and 'USER <username> 0 * :<realname>'.
C4_ConnectWritesNickUser ==
    (connection # "None" /\ nread = 0) => out = RegistrationLines

\* the numerics of the table, read off the dict literal
TableNumerics ==
    {symbolic_to_numeric_items[i][2] : i \in DOMAIN symbolic_to_numeric_items}

\* the command of the current line is a numeric the table does not hold
UnknownNumericLine ==
    /\ cur.status # "none"
    /\ cur.frame = FrameUnknownNumeric
    /\ isdecimal(cur.command)
    /\ cur.command \notin TableNumerics

\* C5: a line with an unknown numeric command makes handle_line return
\* without raising, having invoked no handler and no callback, written
\* nothing and left the registry as it was.
C5_UnknownNumericDropped ==
    (cur.status # "none" /\ cur.frame = FrameUnknownNumeric) =>
        /\ UnknownNumericLine
        /\ cur.status = "returned"
        /\ pc = "idle"
        /\ cur.calls = <<>>
        /\ Len(out) = cur.out0
        /\ callbacks = cur.registry0

\* an unknown numeric was received while a callback was subscribed under
\* the raw numeric string
C5_Witness ==
    /\ UnknownNumericLine
    /\ cur.status = "returned"
    /\ cbLog \in callbacks[ev_999]

\* the frames whose symbolic command has no on_<command> method
NoHandlerFrames == {FrameJoin, FrameJoinLower, FrameWelcome}

\* C6: for a command without a built-in handler, handle_line raises only
\* if a user callback does, never an AttributeError for the missing
\* handler, and when it returns every callback subscribed to the command
\* has been invoked.
C6_MissingHandlerTolerated ==
    (cur.status # "none" /\ cur.frame \in NoHandlerFrames) =>
        /\ Dispatched
        /\ \A i \in DOMAIN cur.calls : cur.calls[i].who # BuiltinCall
        /\ cur.exc # "AttributeError"
        /\ (cur.status = "raised" => cur.calls # <<>>)
        /\ (cur.status = "returned" => PassSubscribers \subseteq Called)

\* a JOIN line, which has no built-in handler, reached its callbacks
C6_Witness ==
    /\ cur.frame = FrameJoin
    /\ cur.status = "returned"
    /\ Called # {}

\* the signals that name the command of the current line in some letter case
SignalsOfCommand == {s \in EventNames : lower(s) = lower(cur.key)}

\* C7 as stated: a callback is invoked whatever the letter case of the event
\* name it was subscribed under and of the command on the wire.
C7_CaseInsensitiveBothSides ==
    (Dispatched /\ cur.status = "returned") =>
        \A s \in SignalsOfCommand : cur.registry0[s] \subseteq Called

\* C7 as amended: the command on the wire is matched in any letter case, but
\* only against the lower-case event name: callbacks subscribed under it are
\* invoked, callbacks subscribed only under another spelling are not.
C7_CaseInsensitiveOnWire ==
    (Dispatched /\ cur.status = "returned") =>
        \A s \in SignalsOfCommand :
            IF s = lower(s)
            THEN cur.registry0[s] \subseteq Called
            ELSE (cur.registry0[s] \ cur.registry0[lower(s)]) \cap Called = {}

\* an upper-case JOIN reached the callback subscribed under 'join' and not
\* the one subscribed under 'JOIN'
C7_Witness ==
    /\ cur.frame = FrameJoin
    /\ cur.status = "returned"
    /\ cbLog \in cur.registry0[ev_JOIN]
    /\ cbLog \notin Called
    /\ Called # {}

\* the event key and the arguments (prefix, *commandArgs) of each frame, the
\* args being those parse_line yields
ExpectedKey(frame) ==
    CASE frame \in PingFrames \cup {FramePingBare} -> ev_ping
      [] frame \in {FrameJoin, FrameJoinLower} -> ev_join
      [] frame = FrameWelcome -> ev_rpl_welcome

ExpectedArgv(frame) ==
    CASE frame = FramePingA -> <<<<>>, <<"a">>>>
      [] frame = FramePingTrail -> <<<<>>, <<"b">>>>
      [] frame \in {FrameJoin, FrameJoinLower} -> <<<<"n", "!", "u", "@", "h">>, <<"#", "c">>>>
      [] frame = FrameWelcome -> <<<<"s">>, <<"m", "e">>, <<"h", "i">>>>

\* C8: the callbacks invoked for a line are those subscribed under the
\* lower-cased symbolic name of its command, all of them once handle_line
\* returns, each called with the prefix followed by the command's args.
C8_CallbacksOfLowerSymbolic ==
    Dispatched =>
        /\ Called \subseteq cur.registry0[ExpectedKey(cur.frame)]
        /\ \A i \in DOMAIN cur.calls :
               cur.calls[i].who # BuiltinCall =>
                   cur.calls[i].argv = ExpectedArgv(cur.frame)
        /\ (cur.status = "returned" =>
                Called = cur.registry0[ExpectedKey(cur.frame)])

\* a 001 line reached a callback subscribed under 'rpl_welcome'
C8_Witness ==
    /\ cur.frame = FrameWelcome
    /\ cur.status = "returned"
    /\ Called # {}
    /\ Called \subseteq cur.registry0[ev_rpl_welcome]

\* C9: nothing is written before the connection exists; as soon as it does,
\* NICK and USER are the first two lines written; and no read is scheduled
\* or completed before they are.
C9_RegistrationOnConnect ==
    /\ (out # <<>> => connection # "None")
    /\ (connection # "None" =>
            /\ Len(out) >= 2
            /\ SubSeq(out, 1, 2) = RegistrationLines)
    /\ ((readPending \/ nread > 0) => Len(out) >= 2)

\* C10 as stated: the keepalive timer ticks in no state before Registered.
C10_NoTickBeforeRegistered ==
    tickStates \cap {"Disconnected", "Connecting", "AwaitingWelcome"} = {}

\* C10 as amended: IRCClient.connect() starts the timer, on the step from
\* Disconnected to Connecting: it is not running and does not tick while
\* Disconnected, and runs from connect() until stop().
C10_TimerStartedByConnect ==
    /\ "Disconnected" \notin tickStates
    /\ (phase = "new" => ~timerRunning)
    /\ ((host = "client" /\ phase # "new" /\ stopResult = "none") => timerRunning)
    /\ (host = "bot" => ~timerRunning /\ tickStates = {})

\* the timer ticked while Connecting and while AwaitingWelcome
C10_Witness ==
    {"Connecting", "AwaitingWelcome"} \subseteq tickStates

\* s begins with p
StartsWith(s, p) == Len(s) >= Len(p) /\ SubSeq(s, 1, Len(p)) = p

\* C11: a tick of the keepalive timer that runs while the controller is
\* Registered writes exactly one line, a PING with a token, and raises
\* nothing.
C11_TickWritesPing ==
    lastTick.state = "Registered" =>
        /\ lastTick.exc = "none"
        /\ Len(lastTick.written) = 1
        /\ StartsWith(lastTick.written[1], <<"P", "I", "N", "G", " ">>)
        /\ Len(lastTick.written[1]) > Len(<<"P", "I", "N", "G", " ">>)

\* number of 'JOIN <channel>' lines written so far
JoinCount(channel) == Cardinality({i \in DOMAIN out : out[i] = join(channel)})

\* the auto-join subscriptions still registered on 'rpl_welcome'
AutojoinRegistered ==
    {cb \in Lookup(callbacks, ev_rpl_welcome) : cb.fn = "inner_func"}

\* C12: once the dispatch of an RPL_WELCOME line is over, exactly one JOIN
\* has been written for every channel of the auto-join list and no auto-join
\* subscription is left on 'rpl_welcome'; as this holds after every later
\* line too, a later RPL_WELCOME adds no JOIN.
C12_AutojoinOnWelcome ==
    (welcomed /\ pc = "idle") =>
        /\ \A i \in DOMAIN channels : JoinCount(channels[i]) = 1
        /\ AutojoinRegistered = {}

\* C13: a call of stop() that follows an earlier call raises nothing and
\* leaves the controller stopped, transport closed and keepalive timer
\* cancelled; on a controller that is stopped already it changes nothing.
C13_StopIdempotent ==
    [][(stops >= 1 /\ stops' = stops + 1) =>
          /\ stopResult' = "returned"
          /\ connection' # "open"
          /\ ~timerRunning'
          /\ ~loopRunning'
          /\ (stopResult = "returned" /\ connection # "open") =>
                 UNCHANGED <<stopResult, connection, connecting, readPending,
                             timerRunning, loopRunning, callbacks, out, queued>>]_vars

\* a step in which the loop invokes something of the engine or the host: the
\* connect callback (LineStream.connect resumes), handle_line for a line
\* read, the built-in handler or a user callback, a keepalive tick
Invokes ==
    \/ connecting /\ ~connecting'
    \/ nread' # nread
    \/ Len(cur'.calls) > Len(cur.calls)
    \/ lastTick' # lastTick
    \/ tickStates' # tickStates

\* C14: once stop() has returned, no step invokes the connect callback, a
\* built-in handler, a user callback or a keepalive tick, whatever was
\* pending (a read) or in flight (the TCP connect) when stop() was called.
C14_NothingAfterStop == [][stopResult = "returned" => ~Invokes]_vars

\* C15: after any call of stop(), whatever the lifecycle state it was made
\* in, the call has returned without raising, and from then on the
\* transport connection is not open and the keepalive timer is cancelled.
C15_StopReleases ==
    stops > 0 =>
        /\ stopResult = "returned"
        /\ connection # "open"
        /\ ~timerRunning

\* the exceptions decode() lets out when the bytes of a line cannot be
\* decoded
DecodeErrors == {"TypeError", "UnicodeDecodeError"}

\* C16: when the bytes of the line just received could not be decoded, the
\* line is dropped (nothing is invoked for it), the connection stays open
\* and the next read is scheduled, so that the read loop goes on.
C16_DecodeErrorTolerated ==
    (/\ stops = 0
     /\ pc = "idle"
     /\ cur.status = "raised"
     /\ ~utf8_decodable(cur.frame)
     /\ cur.exc \in DecodeErrors) =>
        /\ cur.calls = <<>>
        /\ connection = "open"
        /\ readPending

\* a step that runs a keepalive tick
TickStep == lastTick' # lastTick \/ tickStates' # tickStates

\* C17: while a line is being dispatched no read is outstanding and none is
\* queued; a read is scheduled by a dispatch only in the step in which
\* handle_line returns, every part of the line's plan done; a keepalive tick
\* runs only between dispatches and leaves the line state as it is.
C17_OneEventAtATime ==
    [][/\ pc = "dispatch" => (~readPending /\ "read" \notin queued)
       /\ pc' = "dispatch" => (~readPending' /\ "read" \notin queued')
       /\ (pc = "dispatch" /\ readPending') =>
              (cur.plan = <<>> /\ pc' = "idle" /\ cur'.status = "returned")
       /\ TickStep => (pc = "idle" /\ pc' = "idle" /\ cur' = cur)]_vars

\* a line dispatched to a user callback of the host, after which the next
\* read is outstanding, in a run with a keepalive tick
C17_Witness ==
    /\ cur.status = "returned"
    /\ Called # {}
    /\ readPending
    /\ pc = "idle"
    /\ lastTick.state # "none"

RECURSIVE newline_join(_)
newline_join(ps) ==
    IF Len(ps) = 0 THEN <<>>
    ELSE IF Len(ps) = 1 THEN ps[1]
    ELSE ps[1] \o <<"\n">> \o newline_join(Tail(ps))

\* the command word send_message / send_notice puts on the wire
WireCommand(fn) ==
    IF fn = "send_message" THEN <<"P", "R", "I", "V", "M", "S", "G">>
    ELSE <<"N", "O", "T", "I", "C", "E">>

\* what a frame carries after '<command> <target> :'
Payload(frame, fn, target) ==
    SubSeq(frame, Len(WireCommand(fn)) + Len(target) + 4, Len(frame))

\* C21: a message with k newlines is written as k+1 frames, each of them
\* '<PRIVMSG or NOTICE> <target> :<payload>' with the target of the call; the
\* payloads are the lines of the message in order (joined by newlines they
\* give the message back) and no frame holds a newline.
C21_OneFramePerLine ==
    call.fn \in {"send_message", "send_notice"} =>
        LET target == call.args[1]
            message == call.args[2]
            k == Cardinality({i \in DOMAIN message : message[i] = "\n"})
            head == WireCommand(call.fn) \o <<" ">> \o target \o <<" ", ":">>
        IN  /\ Len(call.result) = k + 1
            /\ \A i \in DOMAIN call.result :
                   /\ StartsWith(call.result[i], head)
                   /\ \A j \in DOMAIN call.result[i] : call.result[i][j] # "\n"
            /\ newline_join([i \in DOMAIN call.result |->
                                Payload(call.result[i], call.fn, target)]) = message

\* send_notice called with a message of two newlines, the last line empty
C21_Witness ==
    /\ call.fn = "send_notice"
    /\ call.args[2] = <<"a", "\n", "\n">>
    /\ Len(call.result) = 3

\* the words of s between runs of spaces
RECURSIVE space_tokens(_)
space_tokens(s) ==
    IF s = <<>> THEN <<>>
    ELSE IF Head(s) = " " THEN space_tokens(Tail(s))
    ELSE LET i == find(s, <<" ">>)
         IN  IF i = 0 THEN <<s>>
             ELSE <<SubSeq(s, 1, i - 1)>> \o space_tokens(SubSeq(s, i, Len(s)))

\* the result C22 describes for a line: the prefix between ':' and the first
\* space (empty without ':'), the rest cut at its first ' :' into tokens and
\* a trailing argument kept whole, the first token the command
StatedParse(line) ==
    LET hasPrefix == line # <<>> /\ Head(line) = ":"
        sp == find(line, <<" ">>)
        defined == hasPrefix => sp # 0
        prefix == IF hasPrefix /\ defined THEN SubSeq(line, 2, sp - 1) ELSE <<>>
        rest == IF hasPrefix /\ defined THEN SubSeq(line, sp + 1, Len(line))
                ELSE line
        cut == find(rest, <<" ", ":">>)
        tokens == IF cut = 0 THEN space_tokens(rest)
                  ELSE space_tokens(SubSeq(rest, 1, cut - 1))
        trailing == IF cut = 0 THEN <<>>
                    ELSE <<SubSeq(rest, cut + 2, Len(rest))>>
    IN  IF defined /\ tokens # <<>>
        THEN [defined |-> TRUE, prefix |-> prefix, command |-> Head(tokens),
              args |-> Tail(tokens) \o trailing]
        ELSE [defined |-> FALSE]

\* a line without the terminator of the wire
Bare(line) == \A i \in DOMAIN line : line[i] \notin {"\r", "\n"}

TableEntries == {symbolic_to_numeric_items[i] : i \in DOMAIN symbolic_to_numeric_items}

\* C23: a numeric that the table lists is mapped to the symbolic name listed
\* with it; a numeric that the table does not list raises
\* UnknownNumericCommand; a command that is not a numeric is returned
\* unchanged; and numeric -> symbolic inverts symbolic -> numeric.
C23_NumericsNormalized ==
    call.fn = "get_symbolic_command" =>
        LET command == call.args[1]
            listed == {e \in TableEntries : e[2] = command}
        IN  /\ \A e \in listed : call.exc = "none" /\ call.result = e[1]
            /\ (isdecimal(command) /\ listed = {}) =>
                   call.exc = "UnknownNumericCommandError"
            /\ ~isdecimal(command) => (call.exc = "none" /\ call.result = command)
            /\ \A k \in DOMAIN symbolic_to_numeric :
                   numeric_to_symbolic[symbolic_to_numeric[k]] = k

\* the byte of the newline character
NewlineByte == AsciiOrd("\n")

\* C27: what write_function hands to the transport ends with a newline: it
\* is the line itself when the line ends with one, and the line followed by
\* one newline when it does not.
C27_NewlineTerminated ==
    (call.fn = "write_function" /\ call.exc = "none") =>
        LET line == call.args[1]
            sent == call.result
        IN  /\ sent # <<>> /\ sent[Len(sent)] = NewlineByte
            /\ IF line[Len(line)] = "\n"
               THEN sent = encode_utf8(line)
               ELSE sent = encode_utf8(line) \o <<NewlineByte>>

\* a line that ends with a newline was handed on with no newline added
C27_Witness ==
    /\ call.fn = "write_function"
    /\ call.args = <<<<"a", "\n">>>>
    /\ call.result = <<AsciiOrd("a"), NewlineByte>>

\* the Membership rows as a set of (user, buffer) pairs
Rows(ms) == {ms[i] : i \in DOMAIN ms}

\* the buffers a user is a member of
BuffersOf(ms, id) == {r.buffer : r \in {x \in Rows(ms) : x.user = id}}

\* a step that applies NICK for a nick that a User holds: the new nick, and
\* the records other than the acting one that hold it before the step
NickApplied == lastEvent'.command = "NICK" /\ lastActor' # 0
NewNick == lastEvent'.args[1]
Stale == holders(users, NewNick) \ {lastActor'}

C25_RenameInPlace ==
    [][NickApplied =>
          /\ (holders(users, NewNick) = {} =>
                 /\ users' = [users EXCEPT ![lastActor'].nick = NewNick]
                 /\ users'[lastActor'].current
                 /\ memberships' = memberships)
          /\ Rows(memberships') \subseteq Rows(memberships)]_vars

\* NICK to a nick that no record ever held, applied by a user in a channel
C25_Witness ==
    /\ lastEvent.command = "NICK"
    /\ lastActor # 0
    /\ lastEvent.prefix # Prefix(lastEvent.args[1])
    /\ users[lastActor].nick = lastEvent.args[1]
    /\ live(memberships, lastActor)
    /\ \A t \in DOMAIN users : users[t].nick = lastEvent.args[1] => t = lastActor

\* C26: QUIT of a known user deletes the Membership rows of that user and
\* changes nothing else (User records, buffers, Line records, the rows of
\* other users); and no step of any event deletes a User record: the
\* identifiers known never shrink.
C26_QuitDeletesRowsOnly ==
    [][/\ DOMAIN users \subseteq DOMAIN users'
       /\ (lastEvent'.command = "QUIT" /\ lastActor' # 0) =>
              /\ memberships' = SelectSeq(memberships, LAMBDA r : r.user # lastActor')
              /\ users' = users
              /\ buffers' = buffers
              /\ lineRecords' = lineRecords]_vars

\* QUIT applied for a known user while another user is in a channel: the
\* quitter has no row left, the other user's row is kept
C26_Witness ==
    /\ lastEvent.command = "QUIT"
    /\ lastActor # 0
    /\ ~live(memberships, lastActor)
    /\ \E t \in DOMAIN users : t # lastActor /\ live(memberships, t)

C29_RaisePropagates ==
    [][cur.status = "raised" =>
          /\ pc = "idle" /\ pc' = "idle"
          /\ cur' = cur
          /\ ~readPending /\ ~readPending'
          /\ "read" \notin queued'
          /\ nread' = nread]_vars

\* a user callback raised after another had been called, with a callback of
\* the pass still to call
C29_Witness ==
    /\ cur.status = "raised"
    /\ cur.calls # <<>>
    /\ cur.calls[Len(cur.calls)].who # BuiltinCall
    /\ cur.todo # {}

\* the callbacks of this model that call remove_callback, with the callback
\* each one removes and the signal it removes it from
Removers ==
    {cbOnce, cbRemoveLog} \cup {inner_func(ChannelName(i)) : i \in 1..MaxChannels}
Removed(cb) == IF cb = cbRemoveLog THEN cbLog ELSE cb
RemovedFrom(cb) ==
    IF cb.fn = "inner_func" THEN ev_rpl_welcome ELSE callback_key(cur.key)

\* the step is the call of callback cb, its writes accepted by the connection
RemoverCalled(cb) ==
    /\ Len(cur'.calls) = Len(cur.calls) + 1
    /\ cur'.calls[Len(cur'.calls)].who = cb
    /\ cur'.exc # "StreamClosedError"

\* C30: remove_callback of a callback that is not subscribed to the signal
\* raises KeyError and leaves every signal's subscriptions as they were;
\* remove_callback of a subscribed callback takes that callback out of that
\* signal's subscriptions and changes nothing else.
C30_RemoveCallback ==
    [][\A cb \in Removers :
          RemoverCalled(cb) =>
              IF Removed(cb) \in Lookup(callbacks, RemovedFrom(cb))
              THEN /\ cur'.exc = "none"
                   /\ \A signal \in DOMAIN callbacks \cup DOMAIN callbacks' :
                          Lookup(callbacks', signal) =
                              IF signal = RemovedFrom(cb)
                              THEN Lookup(callbacks, signal) \ {Removed(cb)}
                              ELSE Lookup(callbacks, signal)
              ELSE /\ cur'.status = "raised"
                   /\ cur'.exc = "KeyError"
                   /\ \A signal \in DOMAIN callbacks \cup DOMAIN callbacks' :
                          Lookup(callbacks', signal) = Lookup(callbacks, signal)]_vars

\* a callback asked to remove cbLog from a signal cbLog is not subscribed to,
\* while cbLog is subscribed to another signal: KeyError, and that other
\* subscription is still there
C30_Witness ==
    /\ cur.status = "raised"
    /\ cur.exc = "KeyError"
    /\ cur.calls # <<>>
    /\ cur.calls[Len(cur.calls)].who = cbRemoveLog
    /\ cbLog \notin Lookup(callbacks, callback_key(cur.key))
    /\ \E signal \in DOMAIN callbacks : cbLog \in callbacks[signal]

====
